------------------------ MODULE QuicConfigurationProofs ------------------------
(***************************************************************************)
(* What QuicError(status:) tells of a status, for every status, and the    *)
(* buffers of QuicConfiguration, for every list of protocol names.         *)
(***************************************************************************)
EXTENDS QuicConfiguration, TLAPS

(* Lemma: CHOOSE finds the name of an errno. *)
LEMMA NameOf ==
  ASSUME NEW n \in Named
  PROVE  (CHOOSE m \in Named : Code[m] = Code[n]) = n
  <1>1. \E m \in Named : Code[m] = Code[n]
    OBVIOUS
  <1>2. PICK m \in Named : /\ m = (CHOOSE k \in Named : Code[k] = Code[n])
                           /\ Code[m] = Code[n]
    BY <1>1
  <1> QED
    BY <1>2, CodeAssumption

(* Lemma: the statuses of certificate errors are different. *)
LEMMA CertOf ==
  ASSUME NEW c \in CertErrors
  PROVE  /\ (CHOOSE d \in CertErrors : certErrorBase + CertValue[c] = certErrorBase + CertValue[d]) = c
         /\ CertValue[c] \in 1 .. 3
  <1>1. \A d \in CertErrors : /\ CertValue[d] \in 1 .. 3
                              /\ CertValue[c] = CertValue[d] => c = d
    BY DEF CertErrors, CertValue
  <1>2. certErrorBase \in Nat
    BY SMT DEF certErrorBase, errorBase
  <1>3. PICK d \in CertErrors :
          /\ d = (CHOOSE k \in CertErrors : certErrorBase + CertValue[c] = certErrorBase + CertValue[k])
          /\ certErrorBase + CertValue[c] = certErrorBase + CertValue[d]
    OBVIOUS
  <1>4. CertValue[c] = CertValue[d]
    BY <1>1, <1>2, <1>3
  <1> QED
    BY <1>1, <1>3, <1>4

(* No status is lost: the error made from a failed status, of whatever     *)
(* width of range it is, names exactly that status, so that two statuses   *)
(* never give one error (init(status:), QuicError.swift).                  *)
THEOREM ErrorFaithful ==
  ASSUME NEW x \in Int, Failed(x)
  PROVE  StatusOf(ErrorOf(x)) = x
  <1> DEFINE tls == AtLeast(x, tlsErrorBase) /\ ~AtLeast(x, certErrorBase)
             named == \E n \in Named : Code[n] = x
             cert == \E c \in CertErrors : x = certErrorBase + CertValue[c]
  <1>b. /\ errorBase \in Nat /\ tlsErrorBase \in Nat /\ certErrorBase \in Nat
        /\ errorBase < tlsErrorBase /\ tlsErrorBase < certErrorBase
    BY SMT DEF errorBase, tlsErrorBase, certErrorBase
  <1>n. "tlsError" \notin Named /\ "certUnknown" \notin Named /\ "unknown" \notin Named
        /\ "tlsError" \notin CertErrors /\ "certUnknown" \notin CertErrors
        /\ "unknown" \notin CertErrors /\ CertErrors \cap Named = {}
    BY DEF Named, CertErrors
  <1>1. CASE named
    <2>1. PICK n \in Named : Code[n] = x
      BY <1>1
    <2>2. x \in 1 .. errorBase
      BY <2>1, CodeAssumption
    <2>3. ErrorOf(x) = Plain(n)
      <3>1. \A c \in CertErrors : x # certErrorBase + CertValue[c]
        BY <2>2, <1>b, CertOf
      <3>2. (CHOOSE m \in Named : Code[m] = x) = n
        BY <2>1, NameOf
      <3>3. ~AtLeast(x, tlsErrorBase) /\ ~AtLeast(x, certErrorBase)
        BY <2>2, <1>b DEF AtLeast
      <3> QED
        BY <3>1, <3>2, <3>3, <1>1 DEF ErrorOf
    <2> QED
      BY <2>1, <2>3, <1>n DEF StatusOf, Plain
  <1>2. CASE ~named /\ cert
    <2>1. PICK c \in CertErrors : x = certErrorBase + CertValue[c]
      BY <1>2
    <2>2. AtLeast(x, certErrorBase)
      BY <2>1, <1>b, CertOf DEF AtLeast
    <2>3. (CHOOSE d \in CertErrors : x = certErrorBase + CertValue[d]) = c
      BY <2>1, CertOf
    <2>4. ErrorOf(x) = Plain(c)
      BY <1>2, <2>2, <2>3 DEF ErrorOf
    <2> QED
      BY <2>1, <2>4, <1>n DEF StatusOf, Plain
  <1>3. CASE ~named /\ ~cert /\ tls
    <2>1. ErrorOf(x) = [kind |-> "tlsError", value |-> x - tlsErrorBase]
      BY <1>3 DEF ErrorOf
    <2> QED
      BY <2>1, <1>n, <1>b DEF StatusOf
  <1>4. CASE ~named /\ ~cert /\ ~tls /\ AtLeast(x, certErrorBase)
    <2>1. ErrorOf(x) = [kind |-> "certUnknown", value |-> x - certErrorBase]
      BY <1>4 DEF ErrorOf
    <2> QED
      BY <2>1, <1>n, <1>b DEF StatusOf
  <1>5. CASE ~named /\ ~cert /\ ~tls /\ ~AtLeast(x, certErrorBase)
    <2>1. ErrorOf(x) = [kind |-> "unknown", value |-> x]
      BY <1>5 DEF ErrorOf
    <2> QED
      BY <2>1, <1>n DEF StatusOf
  <1> QED
    BY <1>1, <1>2, <1>3, <1>4, <1>5

(* A TLS alert keeps its number: no errno and no certificate error is in   *)
(* the range of alerts, so that QuicError reports the alert the peer sent. *)
THEOREM AlertKept ==
  ASSUME NEW a \in Int
  PROVE  ErrorOf(tlsAlert(a)) = [kind |-> "tlsError", value |-> a % 256]
  <1> DEFINE r == a % 256
             x == tlsAlert(a)
  <1>1. r \in 0 .. 255
    OBVIOUS
  <1>2. /\ errorBase \in Nat /\ tlsErrorBase \in Nat /\ certErrorBase \in Nat
        /\ tlsErrorBase = 256 + errorBase /\ certErrorBase = 512 + errorBase
    BY SMT DEF tlsErrorBase, certErrorBase, errorBase
  <1>3. x = r + tlsErrorBase
    BY DEF tlsAlert
  <1> HIDE DEF r, x
  <1>4. /\ x \in Int /\ x - tlsErrorBase = r
        /\ errorBase < x /\ x < certErrorBase
        /\ AtLeast(x, tlsErrorBase) /\ ~AtLeast(x, certErrorBase)
    BY <1>1, <1>2, <1>3 DEF AtLeast
  <1>5. \A n \in Named : Code[n] # x
    BY <1>2, <1>4, CodeAssumption
  <1>6. \A c \in CertErrors : x # certErrorBase + CertValue[c]
    BY <1>2, <1>4, CertOf
  <1>7. ErrorOf(x) = [kind |-> "tlsError", value |-> r]
    BY <1>4, <1>5, <1>6 DEF ErrorOf
  <1> QED
    BY <1>7 DEF r, x

-----------------------------------------------------------------------------
(* The scopes *)

(* Where a call is tells how many scopes are open; only what an open scope *)
(* lent is on the heap, and MsQuic reads during its call alone, because    *)
(* asynchronous loads are refused.                                         *)
Scopes ==
  /\ depth \in Nat
  /\ pc = "idle" => depth = 0
  /\ pc = "calling" => depth = Len(Layout(call))
  /\ reading => pc = "calling"
  /\ pc # "idle" => Supported(call)
  /\ plain \subseteq allocated
  /\ allocated \subseteq Live

(* Lemma: opening and closing the innermost scope. *)
LEMMA LiveStep ==
  ASSUME NEW c, NEW d \in Nat
  PROVE  /\ {Layout(c)[i] : i \in 1 .. 0} = {}
         /\ {Layout(c)[i] : i \in 1 .. d} \cup {Layout(c)[d + 1]}
              \subseteq {Layout(c)[i] : i \in 1 .. (d + 1)}
         /\ d > 0 => {Layout(c)[i] : i \in 1 .. d} \ {Layout(c)[d]}
              \subseteq {Layout(c)[i] : i \in 1 .. (d - 1)}
  <1> DEFINE L(i) == Layout(c)[i]
  <1>1. 1 .. 0 = {}
    OBVIOUS
  <1>2. \A i \in 1 .. d : i \in 1 .. (d + 1)
    OBVIOUS
  <1>3. d + 1 \in 1 .. (d + 1)
    OBVIOUS
  <1>4. d > 0 => \A i \in 1 .. d : i = d \/ i \in 1 .. (d - 1)
    OBVIOUS
  <1> HIDE DEF L
  <1>5. /\ {L(i) : i \in 1 .. 0} = {}
        /\ {L(i) : i \in 1 .. d} \cup {L(d + 1)} \subseteq {L(i) : i \in 1 .. (d + 1)}
        /\ d > 0 => {L(i) : i \in 1 .. d} \ {L(d)} \subseteq {L(i) : i \in 1 .. (d - 1)}
    BY <1>1, <1>2, <1>3, <1>4
  <1> QED
    BY <1>5 DEF L

(* Lemma: every step keeps Scopes. *)
LEMMA ScopesStep ==
  ASSUME Scopes, [Next]_vars
  PROVE  Scopes'
  <1> USE DEF Scopes
  <1>1. ASSUME NEW c \in Calls, Begin(c) PROVE Scopes'
    <2>1. depth = 0 /\ depth' = 0 /\ allocated' = allocated /\ plain' = plain
      BY <1>1 DEF Begin
    <2>2. allocated = {}
      BY <2>1, LiveStep DEF Live
    <2> QED
      BY <2>1, <2>2, <1>1 DEF Begin
  <1>2. CASE EnterScope
    <2>1. depth' = depth + 1 /\ call' = call /\ depth' \in Nat
      BY <1>2 DEF EnterScope
    <2>2. Live \cup {Layout(call)[depth + 1]} \subseteq Live'
      BY <2>1, LiveStep DEF Live
    <2>3. allocated' \subseteq Live' /\ plain' \subseteq allocated'
      BY <2>2, <1>2 DEF EnterScope
    <2> QED
      BY <2>1, <2>3, <1>2 DEF EnterScope
  <1>3. CASE CallMsQuic
    BY <1>3 DEF CallMsQuic, Live
  <1>4. CASE MsQuicReads
    BY <1>4 DEF MsQuicReads, Live
  <1>5. ASSUME NEW x \in Statuses, MsQuicReturns(x) PROVE Scopes'
    BY <1>5 DEF MsQuicReturns, Supported, Live
  <1>6. CASE LeaveScope
    <2>1. depth > 0 /\ depth' = depth - 1 /\ call' = call /\ depth' \in Nat
      BY <1>6 DEF LeaveScope
    <2>2. Live \ {Innermost} \subseteq Live'
      BY <2>1, LiveStep DEF Live, Innermost
    <2>3. allocated' \subseteq Live' /\ plain' \subseteq allocated'
      BY <2>2, <1>6 DEF LeaveScope, Wiped
    <2> QED
      BY <2>1, <2>3, <1>6 DEF LeaveScope
  <1>7. CASE Return
    BY <1>7 DEF Return, Live
  <1>8. CASE UNCHANGED vars
    BY <1>8 DEF vars, Live
  <1> QED
    BY <1>1, <1>2, <1>3, <1>4, <1>5, <1>6, <1>7, <1>8 DEF Next

(* Lemma: Scopes holds always. *)
LEMMA ScopesAlways == Spec => []Scopes
  <1>1. Init => Scopes
    BY LiveStep DEF Init, Scopes, Live
  <1>2. Scopes /\ [Next]_vars => Scopes'
    BY ScopesStep
  <1> QED
    BY <1>1, <1>2, PTL DEF Spec

(* MsQuic never reads a buffer whose scope is closed, whatever the number  *)
(* of protocol names and the kind of credential.                           *)
THEOREM BuffersLive == Spec => []BuffersOutliveUse
  <1>1. Scopes => BuffersOutliveUse
    BY DEF Scopes, BuffersOutliveUse, Points, Live
  <1> QED
    BY <1>1, ScopesAlways, PTL

(* Every secure buffer, with a PEM key, certificate or password, is wiped  *)
(* before it is freed, and freed before the call ends, whatever MsQuic     *)
(* returned.                                                               *)
THEOREM SecretsAlwaysWiped == Spec => []SecretsWiped
  <1>1. Scopes => SecretsWiped
    BY LiveStep DEF Scopes, SecretsWiped, Live
  <1> QED
    BY <1>1, ScopesAlways, PTL
===============================================================================
