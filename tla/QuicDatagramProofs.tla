-------------------------- MODULE QuicDatagramProofs --------------------------
(***************************************************************************)
(* sendDatagram(), for any number of sends, whatever addresses the heap    *)
(* gives out and whatever the event handler answers: no context leaks, no  *)
(* send is resumed twice, and a send loses its context to a report about   *)
(* another datagram only if that one was sent from the same address.       *)
(***************************************************************************)
EXTENDS QuicDatagram, TLAPS

(* The application's event handler never answers with a failure. *)
NoVeto == "veto" \notin Usage

(* The context of the send is in memory. *)
Holding(t) == pc[t] \in {"api", "failed"} \/ continuation[t] = "pending"

(* Two contexts in memory are at two addresses. *)
OneHolder == \A t, u \in Senders : Holding(t) /\ Holding(u) /\ address[t] = address[u] => t = u

(* The tokens are the addresses of the sends that wait. *)
TokensArePending ==
  /\ \A t \in Senders : continuation[t] = "pending" =>
        address[t] \in datagramSendContexts
  /\ \A a \in datagramSendContexts : \E t \in Senders :
        continuation[t] = "pending" /\ address[t] = a

(* A send that waits is in its call, or its datagram is in MsQuic's queue, *)
(* or an event about it was vetoed.                                        *)
Waits ==
  \A t \in Senders :
    /\ pc[t] = "idle" <=> continuation[t] = "none"
    /\ pc[t] \in {"idle", "api", "failed"} => datagram[t] = "none"
    /\ continuation[t] = "pending" =>
          pc[t] \in {"api", "failed"}
            \/ (pc[t] = "waiting" /\ (NoVeto => datagram[t] \in Queued))
    /\ datagram[t] \in Queued => ~mqClosed

Unvetoed == NoVeto => eventHandler = "passing"

HeapInv ==
  /\ TypeOK
  /\ TokensAreRetained
  /\ OneHolder
  /\ TokensArePending
  /\ Waits
  /\ Unvetoed
  /\ NoDoubleResume
-----------------------------------------------------------------------------
(* Lemmas *)

LEMMA InitHeap == Init => HeapInv
<1> SUFFICES ASSUME Init PROVE HeapInv
  OBVIOUS
<1>1. TypeOK
  BY DEF Init, TypeOK, Queued, Final
<1>2. TokensAreRetained /\ NoDoubleResume /\ OneHolder
  BY DEF Init, TokensAreRetained, NoDoubleResume, OneHolder, Holding
<1>3. TokensArePending /\ Waits /\ Unvetoed
  BY DEF Init, TokensArePending, Waits, Queued, Unvetoed
<1> QED
  BY <1>1, <1>2, <1>3 DEF HeapInv

(* MsQuic reports states of its own. *)
LEMMA ReportsType ==
  ASSUME NEW before, NEW state \in Reports(before)
  PROVE  /\ state \in {"sent", "lostSuspect"} \cup Final
         /\ before \in {"queued", "sent", "lostSuspect"}
         /\ state = "canceled" => before = "queued"
         /\ state = "lostSuspect" => before = "sent"
  BY DEF Reports, Final

(* The tokens that are taken lead to one waiting send each. *)
LEMMA TokenHasOneSend ==
  ASSUME TypeOK, OneHolder, TokensArePending, NEW A \in SUBSET datagramSendContexts
  PROVE  SendsAt(A) = {t \in Senders : continuation[t] = "pending" /\ address[t] \in A}
  BY DEF OneHolder, Holding, TokensArePending, SendsAt, Holds, TypeOK

(* One report about the datagram of t. *)
Report(t, vetoed, state) ==
  /\ ~mqClosed
  /\ MayVeto(vetoed)
  /\ datagram' = [datagram EXCEPT ![t] = state]
  /\ UNCHANGED <<pc, address, eventHandler, mqClosed>>
  /\ \/ /\ vetoed \/ Ignored(state)
        /\ UNCHANGED mine
     \/ /\ ~vetoed /\ ~Ignored(state)
        /\ TakeAndResume(address[t], Outcome(state))
        /\ mistaken' = mistaken \cup (SendsAt(Taken(address[t])) \ {t})

LEMMA ReportOf ==
  ASSUME NEW t, NEW vetoed, OnSendStateChanged(t, vetoed)
  PROVE  \E state \in Reports(datagram[t]) : Report(t, vetoed, state)
  BY DEF OnSendStateChanged, Report

LEMMA TypeStep ==
  ASSUME TypeOK, [Next]_vars
  PROVE  TypeOK'
<1> USE DEF TypeOK
<1>1. ASSUME NEW t \in Senders, Prepare(t)
      PROVE  TypeOK'
  BY <1>1 DEF Prepare, TokenOf
<1>2. ASSUME NEW t \in Senders, DatagramSend(t)
      PROVE  TypeOK'
  BY <1>2 DEF DatagramSend, Queued, mine
<1>3. ASSUME NEW t \in Senders, SendFail(t)
      PROVE  TypeOK'
  BY <1>3 DEF SendFail, TakeAndResume, ResumeAll
<1>4. ASSUME NEW t \in Senders, Return(t)
      PROVE  TypeOK'
  BY <1>4 DEF Return, mine
<1>5. ASSUME NEW t \in Senders, NEW vetoed \in BOOLEAN, OnSendStateChanged(t, vetoed)
      PROVE  TypeOK'
  <2>1. PICK state \in Reports(datagram[t]) : Report(t, vetoed, state)
    BY <1>5, ReportOf
  <2>2. datagram' \in [Senders -> {"none", "sent", "lostSuspect"} \cup Queued \cup Final]
    BY <2>1, ReportsType DEF Report
  <2>3. CASE UNCHANGED mine
    BY <2>1, <2>2, <2>3 DEF Report, mine
  <2>4. CASE ~UNCHANGED mine
    BY <2>1, <2>2, <2>4 DEF Report, TakeAndResume, ResumeAll, Outcome, SendsAt
  <2> QED
    BY <2>3, <2>4
<1>6. ASSUME NEW vetoed \in BOOLEAN, OnShutdownComplete(vetoed)
      PROVE  TypeOK'
  BY <1>6 DEF OnShutdownComplete, ResumeAll, TokensAfterShutdown, mine
<1>7. CASE SetEventHandler
  BY <1>7 DEF SetEventHandler, swift
<1>8. CASE UNCHANGED vars
  BY <1>8 DEF vars, swift
<1> QED
  BY <1>1, <1>2, <1>3, <1>4, <1>5, <1>6, <1>7, <1>8 DEF Next

(* Taking tokens resumes the sends that wait at their addresses, once, and *)
(* frees their contexts.                                                   *)
LEMMA TakeStep ==
  ASSUME TypeOK, TokensAreRetained, OneHolder, TokensArePending, NoDoubleResume,
         NEW A \in SUBSET datagramSendContexts, NEW how \in {"ok", "error"},
         datagramSendContexts' = datagramSendContexts \ A,
         retained' = retained \ A,
         ResumeAll(SendsAt(A), how),
         UNCHANGED address
  PROVE  /\ TokensAreRetained' /\ TokensArePending' /\ NoDoubleResume'
         /\ \A t \in Senders :
               continuation'[t] = IF continuation[t] = "pending" /\ address[t] \in A
                                  THEN how ELSE continuation[t]
<1>1. SendsAt(A) = {t \in Senders : continuation[t] = "pending" /\ address[t] \in A}
  BY TokenHasOneSend
<1>2. \A t \in Senders :
        continuation'[t] = IF continuation[t] = "pending" /\ address[t] \in A
                           THEN how ELSE continuation[t]
  BY <1>1 DEF ResumeAll
<1>3. NoDoubleResume'
  BY <1>1 DEF NoDoubleResume, ResumeAll
<1>4. TokensAreRetained' /\ TokensArePending'
  BY <1>2 DEF TokensAreRetained, TokensArePending
<1> QED
  BY <1>2, <1>3, <1>4

(* Taking the token at the address of a send answers every send that waits *)
(* there.                                                                  *)
LEMMA TakeAndResumeStep ==
  ASSUME HeapInv, NEW a, NEW how \in {"ok", "error"}, TakeAndResume(a, how), UNCHANGED address
  PROVE  /\ TokensAreRetained' /\ TokensArePending' /\ NoDoubleResume'
         /\ \A t \in Senders :
               continuation'[t] = IF continuation[t] = "pending" /\ address[t] = a
                                  THEN how ELSE continuation[t]
<1>1. Taken(a) \in SUBSET datagramSendContexts
  BY DEF Taken
<1>2. \A t \in Senders :
        continuation[t] = "pending" => (address[t] \in Taken(a) <=> address[t] = a)
  BY DEF Taken, HeapInv, TokensArePending
<1>3. /\ TokensAreRetained' /\ TokensArePending' /\ NoDoubleResume'
      /\ \A t \in Senders :
            continuation'[t] = IF continuation[t] = "pending" /\ address[t] \in Taken(a)
                               THEN how ELSE continuation[t]
  BY <1>1, TakeStep DEF TakeAndResume, HeapInv
<1> QED
  BY <1>2, <1>3

LEMMA HeapStep ==
  ASSUME HeapInv, [Next]_vars
  PROVE  HeapInv'
<1> USE DatagramAssumption DEF HeapInv
<1>1. TypeOK'
  BY TypeStep
<1>2. ASSUME NEW t \in Senders, Prepare(t)
      PROVE  HeapInv'
  <2>1. PICK a \in Addresses :
          /\ MayAllocate(a)
          /\ address' = [address EXCEPT ![t] = a]
          /\ retained' = retained \cup {a}
          /\ datagramSendContexts' = datagramSendContexts \cup {a}
    BY <1>2 DEF Prepare, TokenOf
  <2>2. a \notin retained /\ \A u \in Senders : Holding(u) => address[u] # a
    BY <2>1 DEF MayAllocate, Allocated, Holds, Holding
  <2>3. /\ pc[t] = "idle" /\ continuation[t] = "none" /\ datagram[t] = "none"
        /\ continuation' = [continuation EXCEPT ![t] = "pending"]
        /\ pc' = [pc EXCEPT ![t] = "api"]
        /\ UNCHANGED <<trapped, eventHandler, datagram, mqClosed>>
    BY <1>2 DEF Prepare, Waits
  <2>4. TokensAreRetained' /\ NoDoubleResume'
    BY <2>1, <2>3 DEF TokensAreRetained, NoDoubleResume
  <2>5. OneHolder'
    BY <2>1, <2>2, <2>3 DEF OneHolder, Holding, TypeOK
  <2>6. TokensArePending'
    BY <2>1, <2>3 DEF TokensArePending, TypeOK
  <2>7. Waits' /\ Unvetoed'
    BY <2>3 DEF Waits, TypeOK, Unvetoed
  <2> QED
    BY <1>1, <2>4, <2>5, <2>6, <2>7
<1>3. ASSUME NEW t \in Senders, DatagramSend(t)
      PROVE  HeapInv'
  <2>1. OneHolder' /\ Waits' /\ Unvetoed'
    BY <1>3 DEF DatagramSend, OneHolder, Holding, Waits, Unvetoed, Queued, TypeOK, mine
  <2>2. TokensAreRetained' /\ TokensArePending' /\ NoDoubleResume'
    BY <1>3 DEF DatagramSend, TokensAreRetained, TokensArePending, NoDoubleResume, mine
  <2> QED
    BY <1>1, <2>1, <2>2
<1>4. ASSUME NEW t \in Senders, SendFail(t)
      PROVE  HeapInv'
  <2>1. /\ TokensAreRetained' /\ TokensArePending' /\ NoDoubleResume'
        /\ \A u \in Senders :
              continuation'[u] = IF continuation[u] = "pending" /\ address[u] = address[t]
                                 THEN "error" ELSE continuation[u]
    BY <1>4, TakeAndResumeStep DEF SendFail
  <2>2. OneHolder' /\ Waits' /\ Unvetoed'
    BY <1>4, <2>1 DEF SendFail, OneHolder, Holding, Waits, Unvetoed, TypeOK
  <2> QED
    BY <1>1, <2>1, <2>2
<1>5. ASSUME NEW t \in Senders, Return(t)
      PROVE  HeapInv'
  <2>1. OneHolder' /\ Waits' /\ Unvetoed'
    BY <1>5 DEF Return, OneHolder, Holding, Waits, Unvetoed, TypeOK, mine
  <2> QED
    BY <1>1, <1>5, <2>1 DEF Return, TokensAreRetained, TokensArePending, NoDoubleResume, mine
<1>6. ASSUME NEW t \in Senders, NEW vetoed \in BOOLEAN, OnSendStateChanged(t, vetoed)
      PROVE  HeapInv'
  <2>1. PICK state \in Reports(datagram[t]) : Report(t, vetoed, state)
    BY <1>6, ReportOf
  <2>2. /\ datagram[t] \in {"queued", "sent", "lostSuspect"}
        /\ state \notin Queued
        /\ state = "lostSuspect" => datagram[t] = "sent"
    BY ReportsType DEF Final, Queued
  <2>3. CASE UNCHANGED mine
    <3>1. TokensAreRetained' /\ TokensArePending' /\ OneHolder' /\ NoDoubleResume' /\ Unvetoed'
      BY <2>1, <2>3 DEF Report, mine, TokensAreRetained, TokensArePending, OneHolder, Holding,
         NoDoubleResume, Unvetoed
    <3>2. vetoed => ~NoVeto
      BY <2>1 DEF Report, MayVeto, Unvetoed
    <3>3. CASE vetoed
      BY <1>1, <2>1, <2>2, <2>3, <3>1, <3>2, <3>3 DEF Report, mine, Waits, Queued, TypeOK
    <3>4. CASE Ignored(state)
      BY <1>1, <2>1, <2>2, <2>3, <3>1, <3>4 DEF Ignored, Report, mine, Waits, Queued, TypeOK
    <3>5. CASE ~vetoed /\ ~Ignored(state)
      <4>1. TakeAndResume(address[t], Outcome(state))
        BY <2>1, <3>5 DEF Report
      <4>2. continuation[t] # "pending"
        BY <2>3, <4>1, TakeAndResumeStep, <2>1 DEF mine, Report, Outcome, TypeOK
      <4> QED
        BY <1>1, <2>1, <2>2, <2>3, <3>1, <4>2 DEF Report, mine, Waits, Queued, TypeOK
    <3> QED
      BY <3>3, <3>4, <3>5
  <2>4. CASE ~UNCHANGED mine
    <3>1. TakeAndResume(address[t], Outcome(state)) /\ Outcome(state) \in {"ok", "error"}
      BY <2>1, <2>4 DEF Outcome, Report
    <3>2. /\ TokensAreRetained' /\ TokensArePending' /\ NoDoubleResume'
          /\ \A u \in Senders :
                continuation'[u] = IF continuation[u] = "pending" /\ address[u] = address[t]
                                   THEN Outcome(state) ELSE continuation[u]
      BY <2>1, <3>1, TakeAndResumeStep DEF Report
    <3>3. OneHolder' /\ Waits' /\ Unvetoed'
      BY <2>1, <2>2, <3>1, <3>2 DEF Report, OneHolder, Holding, Waits, Unvetoed, TypeOK
    <3> QED
      BY <1>1, <3>2, <3>3
  <2> QED
    BY <2>3, <2>4
<1>7. ASSUME NEW vetoed \in BOOLEAN, OnShutdownComplete(vetoed)
      PROVE  HeapInv'
  <2>1. CASE vetoed
    <3>1. UNCHANGED mine /\ ~NoVeto
      BY <1>7, <2>1 DEF OnShutdownComplete, MayVeto, Unvetoed
    <3>2. TokensAreRetained' /\ TokensArePending' /\ OneHolder' /\ NoDoubleResume' /\ Unvetoed'
      BY <1>7, <3>1 DEF OnShutdownComplete, mine, TokensAreRetained, TokensArePending, OneHolder,
         Holding, NoDoubleResume, Unvetoed
    <3>3. Waits'
      BY <1>7, <3>1 DEF OnShutdownComplete, mine, Waits
    <3> QED
      BY <1>1, <3>2, <3>3
  <2>2. CASE ~vetoed
    <3>1. /\ TokensAreRetained' /\ TokensArePending' /\ NoDoubleResume'
          /\ \A u \in Senders :
                continuation'[u] = IF continuation[u] = "pending"
                                      /\ address[u] \in datagramSendContexts
                                   THEN "error" ELSE continuation[u]
      <4>1. datagramSendContexts' = datagramSendContexts \ datagramSendContexts
        BY <1>7, <2>2 DEF OnShutdownComplete, TokensAfterShutdown
      <4> QED
        BY <1>7, <2>2, <4>1, TakeStep DEF OnShutdownComplete
    <3>2. OneHolder' /\ Waits' /\ Unvetoed'
      BY <1>7, <2>2, <3>1 DEF OnShutdownComplete, OneHolder, Holding, Waits, Unvetoed,
         TokensArePending, TypeOK
    <3> QED
      BY <1>1, <3>1, <3>2
  <2> QED
    BY <2>1, <2>2
<1>8. CASE SetEventHandler
  BY <1>1, <1>8 DEF SetEventHandler, swift, TypeOK, TokensAreRetained, TokensArePending, OneHolder,
     Holding, Waits, Unvetoed, NoVeto, NoDoubleResume
<1>9. CASE UNCHANGED vars
  BY <1>9 DEF vars, swift, TypeOK, TokensAreRetained, TokensArePending, OneHolder, Holding, Waits,
     Unvetoed, NoDoubleResume
<1> QED
  BY <1>2, <1>3, <1>4, <1>5, <1>6, <1>7, <1>8, <1>9 DEF Next
-----------------------------------------------------------------------------
(* Whatever the heap does *)

LEMMA HeapInductive == Spec => []HeapInv
<1>1. HeapInv /\ [Next]_vars => HeapInv'
  BY HeapStep
<1> QED
  BY <1>1, InitHeap, PTL DEF Spec

(* Every variable keeps its type, also when addresses are used again. *)
THEOREM TypeCorrect == Spec => []TypeOK
<1>1. HeapInv => TypeOK
  BY DEF HeapInv
<1> QED
  BY <1>1, HeapInductive, PTL

(* A sendDatagram() is resumed by one of DatagramSend's refusal, an event  *)
(* or SHUTDOWN_COMPLETE, never by two of them, although a late event may   *)
(* name an address that is another send's by then.                         *)
THEOREM ResumedOnce == Spec => []NoDoubleResume
<1>1. HeapInv => NoDoubleResume
  BY DEF HeapInv
<1> QED
  BY <1>1, HeapInductive, PTL

(* The set of tokens is the set of retained contexts: nothing leaks and    *)
(* nothing is freed behind the set's back.                                 *)
THEOREM ContextsAreTracked == Spec => []TokensAreRetained
<1>1. HeapInv => TokensAreRetained
  BY DEF HeapInv
<1> QED
  BY <1>1, HeapInductive, PTL

(* A send that waits is about to hear from DatagramSend, or its datagram   *)
(* is in the queue of a MsQuic that still reports.                         *)
AnswerIsDue ==
  \A t \in Senders : continuation[t] = "pending" =>
    pc[t] \in {"api", "failed"} \/ (datagram[t] \in Queued /\ ~mqClosed)

(* If the event handler keeps no event from the wrapper, no wake-up is     *)
(* lost, neither to a SHUTDOWN_COMPLETE that comes between the token and   *)
(* DatagramSend nor to a late event of another datagram.  (After a vetoed  *)
(* SENT or SHUTDOWN_COMPLETE a send may wait for nothing.)                 *)
THEOREM WaitersAreAnswered == ASSUME NoVeto PROVE Spec => []AnswerIsDue
<1>1. HeapInv => AnswerIsDue
  BY DEF HeapInv, Waits, AnswerIsDue
<1> QED
  BY <1>1, HeapInductive, PTL
-----------------------------------------------------------------------------
(* Whose answer it is *)

(* Another datagram was sent from the address of t and MsQuic has reported *)
(* its end; its context is no longer in memory.                            *)
EndedThere(t) ==
  \E u \in Senders \ {t} :
    address[u] = address[t] /\ datagram[u] \in Final \ {"canceled"} /\ ~Holding(u)

(* What answers a send is its own failure, a report about its own datagram *)
(* or SHUTDOWN_COMPLETE; otherwise it was taken for another datagram that  *)
(* was sent from its address.                                              *)
OwnAnswer ==
  \A t \in Senders :
    /\ pc[t] \in {"api", "failed"} /\ ~mqClosed => continuation[t] = "pending" \/ t \in mistaken
    /\ datagram[t] \in Queued => continuation[t] = "pending" \/ t \in mistaken
    /\ continuation[t] = "ok" => datagram[t] \notin {"none", "canceled"} \/ t \in mistaken
    /\ t \in mistaken => continuation[t] \in {"ok", "error"} /\ EndedThere(t)

(* The end of a datagram is the last MsQuic says of it. *)
LEMMA EndStep ==
  ASSUME HeapInv, [Next]_vars, NEW t \in Senders, pc[t] # "idle", EndedThere(t),
         \A u \in Senders : ~Holding(u) /\ pc[u] # "idle" => ~Holding(u)'
  PROVE  EndedThere(t)'
<1> USE DEF HeapInv, TypeOK
<1>1. PICK u \in Senders \ {t} :
        address[u] = address[t] /\ datagram[u] \in Final \ {"canceled"} /\ ~Holding(u)
  BY DEF EndedThere
<1>2. pc[u] # "idle"
  BY <1>1 DEF Waits, Final
<1>3. \A w \in Senders : pc[w] # "idle" => address'[w] = address[w]
  BY DEF Next, Prepare, DatagramSend, SendFail, Return, OnSendStateChanged, OnShutdownComplete,
     SetEventHandler, vars, swift
<1>4. datagram'[u] = datagram[u]
  <2>1. ASSUME NEW w \in Senders, NEW vetoed \in BOOLEAN, OnSendStateChanged(w, vetoed)
        PROVE  datagram'[u] = datagram[u]
    <3>1. PICK state \in Reports(datagram[w]) : Report(w, vetoed, state)
      BY <2>1, ReportOf
    <3>2. datagram[w] \in {"queued", "sent", "lostSuspect"}
      BY <3>1, ReportsType
    <3> QED
      BY <1>1, <3>1, <3>2 DEF Report, Final
  <2>2. ASSUME NEW w \in Senders, DatagramSend(w)
        PROVE  datagram'[u] = datagram[u]
    BY <1>1, <2>2 DEF DatagramSend, Waits, Final
  <2> QED
    BY <2>1, <2>2 DEF Next, Prepare, SendFail, Return, OnShutdownComplete, SetEventHandler, vars,
       swift
<1> QED
  BY <1>1, <1>2, <1>3, <1>4 DEF EndedThere

LEMMA OwnStep ==
  ASSUME HeapInv, OwnAnswer, [Next]_vars
  PROVE  OwnAnswer'
<1> USE DEF HeapInv, TypeOK
<1>1. \A t \in mistaken : pc[t] # "idle"
  BY DEF OwnAnswer, Waits
<1>2. ASSUME NEW t \in Senders, Prepare(t)
      PROVE  OwnAnswer'
  <2>1. \A u \in Senders : ~Holding(u) /\ pc[u] # "idle" => ~Holding(u)'
    BY <1>2 DEF Prepare, Holding
  <2>2. \A u \in mistaken : EndedThere(u)'
    BY <1>1, <2>1, EndStep DEF OwnAnswer
  <2>3. t \notin mistaken
    BY <1>1, <1>2 DEF Prepare
  <2> QED
    BY <1>2, <2>2, <2>3 DEF Prepare, OwnAnswer, Waits, Queued
<1>3. ASSUME NEW t \in Senders, DatagramSend(t)
      PROVE  OwnAnswer'
  <2>1. \A u \in Senders : ~Holding(u) /\ pc[u] # "idle" => ~Holding(u)'
    BY <1>3 DEF DatagramSend, Holding, mine
  <2>2. \A u \in mistaken : EndedThere(u)'
    BY <1>1, <2>1, EndStep DEF OwnAnswer
  <2> QED
    BY <1>3, <2>2 DEF DatagramSend, OwnAnswer, Waits, Queued, mine
<1>4. ASSUME NEW t \in Senders, SendFail(t)
      PROVE  OwnAnswer'
  <2>1. \A u \in Senders :
          continuation'[u] = IF continuation[u] = "pending" /\ address[u] = address[t]
                             THEN "error" ELSE continuation[u]
    BY <1>4, TakeAndResumeStep DEF SendFail
  <2>2. \A u \in Senders : continuation[u] = "pending" /\ address[u] = address[t] => u = t
    BY <1>4 DEF SendFail, OneHolder, Holding
  <2>3. \A u \in Senders : ~Holding(u) /\ pc[u] # "idle" => ~Holding(u)'
    BY <1>4, <2>1 DEF SendFail, Holding
  <2>4. \A u \in mistaken : EndedThere(u)'
    BY <1>1, <2>3, EndStep DEF OwnAnswer
  <2> QED
    BY <1>4, <2>1, <2>2, <2>4 DEF SendFail, OwnAnswer, Waits, Queued
<1>5. ASSUME NEW t \in Senders, Return(t)
      PROVE  OwnAnswer'
  <2>1. \A u \in Senders : ~Holding(u) /\ pc[u] # "idle" => ~Holding(u)'
    BY <1>5 DEF Return, Holding, mine
  <2>2. \A u \in mistaken : EndedThere(u)'
    BY <1>1, <2>1, EndStep DEF OwnAnswer
  <2> QED
    BY <1>5, <2>2 DEF Return, OwnAnswer, Queued, mine
<1>6. ASSUME NEW t \in Senders, NEW vetoed \in BOOLEAN, OnSendStateChanged(t, vetoed)
      PROVE  OwnAnswer'
  <2>1. PICK state \in Reports(datagram[t]) : Report(t, vetoed, state)
    BY <1>6, ReportOf
  <2>2. /\ datagram[t] \in {"queued", "sent", "lostSuspect"}
        /\ state \in {"sent", "lostSuspect"} \cup Final
        /\ state \in {"sent", "canceled"} => datagram[t] = "queued"
        /\ state = "lostSuspect" => datagram[t] = "sent"
    BY ReportsType DEF Reports, Final
  <2>3. CASE UNCHANGED mine
    <3>1. \A u \in Senders : ~Holding(u) /\ pc[u] # "idle" => ~Holding(u)'
      BY <2>1, <2>3 DEF Report, Holding, mine
    <3>2. \A u \in mistaken : EndedThere(u)'
      BY <1>1, <3>1, EndStep DEF OwnAnswer
    <3> QED
      BY <2>1, <2>2, <2>3, <3>2 DEF Report, OwnAnswer, Queued, Final, mine
  <2>4. CASE ~UNCHANGED mine
    <3>1. /\ TakeAndResume(address[t], Outcome(state))
          /\ Outcome(state) \in {"ok", "error"}
          /\ state # "lostSuspect"
          /\ mistaken' = mistaken \cup (SendsAt(Taken(address[t])) \ {t})
      BY <2>1, <2>4 DEF Report, Outcome, Ignored
    <3>2. \A u \in Senders :
            continuation'[u] = IF continuation[u] = "pending" /\ address[u] = address[t]
                               THEN Outcome(state) ELSE continuation[u]
      BY <2>1, <3>1, TakeAndResumeStep DEF Report
    <3>3. \A u \in Senders : ~Holding(u) /\ pc[u] # "idle" => ~Holding(u)'
      BY <2>1, <3>2 DEF Report, Holding
    <3>4. \A u \in mistaken : EndedThere(u)'
      BY <1>1, <3>3, EndStep DEF OwnAnswer
    <3>5. SendsAt(Taken(address[t])) =
            {u \in Senders : continuation[u] = "pending" /\ address[u] = address[t]}
      <4>1. Taken(address[t]) \in SUBSET datagramSendContexts
        BY DEF Taken
      <4> QED
        BY <4>1, TokenHasOneSend DEF Taken, TokensArePending
    <3>6. ASSUME NEW u \in Senders \ {t}, continuation[u] = "pending", address[u] = address[t]
          PROVE  EndedThere(u)'
      <4>1. ~Holding(t) /\ Holding(u)
        BY <3>6 DEF OneHolder, Holding
      <4>2. pc[t] # "idle" /\ pc[u] # "idle"
        BY <2>2, <3>6 DEF Waits
      <4>3. CASE state \in Final \ {"canceled"}
        <5>1. ~Holding(t)' /\ datagram'[t] = state /\ UNCHANGED address
          BY <2>1, <3>3, <4>1, <4>2 DEF Report
        <5> QED
          BY <3>6, <4>3, <5>1 DEF EndedThere
      <4>4. CASE state \notin Final \ {"canceled"}
        <5>1. t \in mistaken
          BY <2>2, <3>1, <4>1, <4>4 DEF OwnAnswer, Queued, Final, Holding
        <5>2. PICK w \in Senders \ {t} :
                address[w] = address[t] /\ datagram[w] \in Final \ {"canceled"} /\ ~Holding(w)
          BY <5>1 DEF OwnAnswer, EndedThere
        <5>3. EndedThere(u)
          BY <3>6, <4>1, <5>2 DEF EndedThere
        <5> QED
          BY <3>3, <4>2, <5>3, EndStep
      <4> QED
        BY <4>3, <4>4
    <3>7. \A u \in Senders : u \in mistaken' => EndedThere(u)' /\ continuation'[u] \in {"ok", "error"}
      BY <3>1, <3>2, <3>4, <3>5, <3>6 DEF OwnAnswer
    <3>8. ASSUME NEW u \in Senders
          PROVE  UNCHANGED continuation[u] \/ u \in mistaken' \/ u = t
      BY <3>1, <3>2, <3>5
    <3>9. ASSUME NEW u \in Senders \ {t}
          PROVE  /\ pc[u] \in {"api", "failed"} /\ ~mqClosed =>
                      continuation'[u] = "pending" \/ u \in mistaken'
                 /\ datagram[u] \in Queued => continuation'[u] = "pending" \/ u \in mistaken'
                 /\ continuation'[u] = "ok" =>
                      datagram[u] \notin {"none", "canceled"} \/ u \in mistaken'
      BY <3>1, <3>8 DEF OwnAnswer
    <3>10. /\ pc[t] \notin {"api", "failed"}
           /\ state \notin Queued
           /\ continuation'[t] = "ok" => state \notin {"none", "canceled"} \/ t \in mistaken'
      BY <2>2, <3>1, <3>2 DEF OwnAnswer, Waits, Outcome, Queued, Final
    <3>11. UNCHANGED <<pc, mqClosed>> /\ datagram' = [datagram EXCEPT ![t] = state]
      BY <2>1 DEF Report
    <3> QED
      BY <3>7, <3>9, <3>10, <3>11 DEF OwnAnswer
  <2> QED
    BY <2>3, <2>4
<1>7. ASSUME NEW vetoed \in BOOLEAN, OnShutdownComplete(vetoed)
      PROVE  OwnAnswer'
  <2>1. \A u \in Senders :
          continuation'[u] = continuation[u]
            \/ (continuation[u] = "pending" /\ continuation'[u] = "error")
    BY <1>7, TokenHasOneSend DEF OnShutdownComplete, ResumeAll, mine
  <2>2. UNCHANGED <<pc, address, datagram, mistaken>> /\ mqClosed'
    BY <1>7 DEF OnShutdownComplete, mine
  <2>3. \A u \in Senders : ~Holding(u) /\ pc[u] # "idle" => ~Holding(u)'
    BY <2>1, <2>2 DEF Holding
  <2>4. \A u \in mistaken : EndedThere(u)'
    BY <1>1, <2>3, EndStep DEF OwnAnswer
  <2>5. \A u \in Senders : datagram[u] \notin Queued
    BY <1>7 DEF OnShutdownComplete
  <2> QED
    BY <2>1, <2>2, <2>4, <2>5 DEF OwnAnswer
<1>8. CASE SetEventHandler \/ UNCHANGED vars
  BY <1>8 DEF SetEventHandler, vars, swift, OwnAnswer, EndedThere, Holding
<1> QED
  BY <1>2, <1>3, <1>4, <1>5, <1>6, <1>7, <1>8 DEF Next

LEMMA OwnInductive == Spec => [](HeapInv /\ OwnAnswer)
<1>1. Init => OwnAnswer
  BY DEF Init, OwnAnswer, Queued
<1>2. HeapInv /\ OwnAnswer /\ [Next]_vars => OwnAnswer'
  BY OwnStep
<1> QED
  BY <1>1, <1>2, HeapInductive, PTL DEF Spec

(* MsQuic reads a queued datagram from the context of its own send, unless *)
(* a report about another datagram named the same address and had it       *)
(* freed; whatever addresses the heap gives out.                           *)
THEOREM BufferOutlivesSend == Spec => []QueuedBufferIsAlive
<1>1. HeapInv /\ OwnAnswer => QueuedBufferIsAlive
  BY DEF HeapInv, OwnAnswer, QueuedBufferIsAlive, TokensArePending, TokensAreRetained, Holds
<1> QED
  BY <1>1, OwnInductive, PTL

(* sendDatagram() returns without an error only for a datagram that was    *)
(* sent, or because it was taken for another one at the same address.      *)
THEOREM AnswerIsOwn == Spec => []AnsweredIsSent
<1>1. HeapInv /\ OwnAnswer => AnsweredIsSent
  <2> SUFFICES ASSUME HeapInv, OwnAnswer, NEW t \in Senders, continuation[t] = "ok",
                      t \notin mistaken
               PROVE  WasSent(t)
    BY DEF AnsweredIsSent
  <2>1. datagram[t] \in {"none", "sent", "lostSuspect"} \cup Queued \cup Final
    BY DEF HeapInv, TypeOK
  <2> QED
    BY <2>1 DEF OwnAnswer, Queued, WasSent
<1> QED
  BY <1>1, OwnInductive, PTL

(* A send is taken for another one only if a datagram that had its address *)
(* before was sent and has been acknowledged or given up: every such       *)
(* mix-up begins with a report MsQuic makes after SENT.                    *)
THEOREM MistakenByALateReport == Spec => []MistakenAfterReuse
<1>1. HeapInv /\ OwnAnswer => MistakenAfterReuse
  BY DEF HeapInv, TypeOK, OwnAnswer, EndedThere, Holding, MistakenAfterReuse, Holds
<1> QED
  BY <1>1, OwnInductive, PTL
===============================================================================
