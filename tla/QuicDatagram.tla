----------------------------- MODULE QuicDatagram -----------------------------
(***************************************************************************)
(* QuicConnection.sendDatagram and the DATAGRAM_SEND_STATE_CHANGED events  *)
(* that answer it (Handlers/QuicConnection.swift).                         *)
(*                                                                         *)
(* A send is known to MsQuic, and to the set datagramSendContexts, by the  *)
(* address of its DatagramSendContext.  MsQuic goes on reporting about a   *)
(* datagram after it was sent (lost, acknowledged), with the same address; *)
(* the context is freed by then and the heap may give its address to the   *)
(* next send.  The application's event handler sees every event first and  *)
(* may keep it from the wrapper (`vetoed`).                                *)
(***************************************************************************)
EXTENDS Naturals, FiniteSets

CONSTANTS
  Senders,    (* tasks that call sendDatagram() once *)
  Addresses,  (* where the heap puts a DatagramSendContext *)
  NoAddress,
  Usage       (* what the application does beyond sending *)

ASSUME DatagramAssumption == NoAddress \notin Addresses

(* "veto": its event handler answers some events with a failure. *)
ASSUME UsageAssumption == Usage \subseteq {"veto"}

VARIABLES
  datagramSendContexts,  (* the tokens: a set of addresses *)
  retained,              (* addresses of contexts under passRetained *)
  address,               (* where each send's context is, or was *)
  pc,                    (* where each task is in its call *)
  continuation,          (* each task's checked continuation *)
  trapped,               (* a checked continuation was resumed twice *)
  eventHandler,          (* "passing" (or none), or "vetoing" *)
  datagram,              (* each datagram, as MsQuic sees it *)
  mqClosed,              (* SHUTDOWN_COMPLETE was delivered *)
  mistaken               (* history: the sends another datagram's report answered *)

swift == <<datagramSendContexts, retained, pc, continuation, trapped>>
mine  == <<datagramSendContexts, retained, continuation, trapped, mistaken>>
vars  == <<swift, address, eventHandler, datagram, mqClosed, mistaken>>

Queued == {"queued"}
Final  == {"acknowledged", "acknowledgedSpurious", "lostDiscarded", "canceled"}

TypeOK ==
  /\ datagramSendContexts \subseteq Addresses
  /\ retained \subseteq Addresses
  /\ address \in [Senders -> Addresses \cup {NoAddress}]
  /\ pc \in [Senders -> {"idle", "api", "failed", "waiting", "done"}]
  /\ continuation \in [Senders -> {"none", "pending", "ok", "error"}]
  /\ trapped \in BOOLEAN
  /\ datagram \in [Senders -> {"none", "sent", "lostSuspect"} \cup Queued \cup Final]
  /\ eventHandler \in {"passing", "vetoing"}
  /\ mqClosed \in BOOLEAN
  /\ mistaken \subseteq Senders

Init ==
  /\ datagramSendContexts = {} /\ retained = {}
  /\ address = [t \in Senders |-> NoAddress]
  /\ pc = [t \in Senders |-> "idle"]
  /\ continuation = [t \in Senders |-> "none"]
  /\ trapped = FALSE
  /\ datagram = [t \in Senders |-> "none"]
  /\ eventHandler = "passing"
  /\ mqClosed = FALSE
  /\ mistaken = {}

-----------------------------------------------------------------------------
(* A context is in memory while it is retained or its sender is still in   *)
(* the closure that made it.                                               *)
Holds(t, a) == address[t] = a /\ (pc[t] \in {"api", "failed"} \/ continuation[t] = "pending")

Allocated(a) == a \in retained \/ \E t \in Senders : Holds(t, a)

(* The heap gives out any address that is not taken. *)
MayAllocate(a) == ~Allocated(a)

(* The sends whose contexts are at the addresses A (none, or one each). *)
SendsAt(A) == {t \in Senders : \E a \in A : Holds(t, a)}

ResumeAll(S, how) ==
  /\ continuation' = [t \in Senders |-> IF t \in S THEN how ELSE continuation[t]]
  /\ trapped' = (trapped \/ \E t \in S : continuation[t] # "pending")

(* Mutant: the token is not asked for. *)
MutTaken(a) == {a}

(* datagramSendContexts.remove(token) != nil: the tokens that are taken. *)
Taken(a) == {a} \cap datagramSendContexts

(* Take the context of a token out of the set, free it, and resume.  A     *)
(* token that is not in the set is ignored.                                *)
TakeAndResume(a, how) ==
  /\ datagramSendContexts' = datagramSendContexts \ Taken(a)
  /\ retained' = retained \ Taken(a)
  /\ ResumeAll(SendsAt(Taken(a)), how)

-----------------------------------------------------------------------------
(* sendDatagram() *)

(* Mutants: DatagramSend is called before the token is known; the token is *)
(* taken of a context that was not assigned yet.                           *)
MutTokenOf(a) == {}
MutNullToken(a) == {NoAddress}

(* The token that is inserted before DatagramSend. *)
TokenOf(a) == {a}

Prepare(t) ==
  /\ pc[t] = "idle"
  /\ \E a \in Addresses :
       /\ MayAllocate(a)
       /\ address' = [address EXCEPT ![t] = a]
       /\ retained' = retained \cup {a}
       /\ datagramSendContexts' = datagramSendContexts \cup TokenOf(a)
  /\ continuation' = [continuation EXCEPT ![t] = "pending"]
  /\ pc' = [pc EXCEPT ![t] = "api"]
  /\ UNCHANGED <<trapped, eventHandler, datagram, mqClosed, mistaken>>

(* Mutant: QUIC_STATUS_PENDING is taken for a failure. *)
MutDatagramSend(t) ==
  /\ pc[t] = "api"
  /\ IF mqClosed THEN UNCHANGED datagram ELSE datagram' = [datagram EXCEPT ![t] = "queued"]
  /\ pc' = [pc EXCEPT ![t] = "failed"]
  /\ UNCHANGED <<mine, address, eventHandler, mqClosed>>

(* api.DatagramSend *)
DatagramSend(t) ==
  /\ pc[t] = "api"
  /\ \/ /\ ~mqClosed
        /\ datagram' = [datagram EXCEPT ![t] = "queued"]
        /\ pc' = [pc EXCEPT ![t] = "waiting"]
     \/ /\ pc' = [pc EXCEPT ![t] = "failed"]
        /\ UNCHANGED datagram
  /\ UNCHANGED <<mine, address, eventHandler, mqClosed>>

SendFail(t) ==
  /\ pc[t] = "failed"
  /\ TakeAndResume(address[t], "error")
  /\ pc' = [pc EXCEPT ![t] = "waiting"]
  /\ UNCHANGED <<address, eventHandler, datagram, mqClosed, mistaken>>

Return(t) ==
  /\ pc[t] = "waiting"
  /\ continuation[t] \in {"ok", "error"}
  /\ pc' = [pc EXCEPT ![t] = "done"]
  /\ UNCHANGED <<mine, address, eventHandler, datagram, mqClosed>>

-----------------------------------------------------------------------------
(* handleEvent.  The event handler comes first; when its status is not     *)
(* success the event has happened for MsQuic, and nothing else is done.    *)

(* onEvent(), or the handler changes its answer. *)
SetEventHandler ==
  /\ "veto" \in Usage
  /\ eventHandler' \in {"passing", "vetoing"} \ {eventHandler}
  /\ UNCHANGED <<swift, address, datagram, mqClosed, mistaken>>

MayVeto(vetoed) == vetoed => eventHandler = "vetoing"

(* What MsQuic reports of one datagram, in order. *)
Reports(before) ==
  IF before = "queued" THEN {"sent", "canceled"}
  ELSE IF before = "sent" THEN {"lostSuspect", "acknowledged"}
  ELSE IF before = "lostSuspect" THEN {"acknowledgedSpurious", "lostDiscarded"}
  ELSE {}

(* Mutant: a canceled datagram counts as sent. *)
MutOutcome(state) == "ok"

Outcome(state) == IF state = "canceled" THEN "error" ELSE "ok"

(* Mutant: a datagram suspected lost counts as lost. *)
MutIgnored(state) == FALSE

(* The reports handleEvent does nothing about. *)
Ignored(state) == state = "lostSuspect"

OnSendStateChanged(t, vetoed) ==
  /\ ~mqClosed /\ MayVeto(vetoed)
  /\ \E state \in Reports(datagram[t]) :
       /\ datagram' = [datagram EXCEPT ![t] = state]
       /\ \/ /\ vetoed \/ Ignored(state)
             /\ UNCHANGED mine
          \/ /\ ~vetoed /\ ~Ignored(state)
             /\ TakeAndResume(address[t], Outcome(state))
             /\ mistaken' = mistaken \cup (SendsAt(Taken(address[t])) \ {t})
  /\ UNCHANGED <<pc, address, eventHandler, mqClosed>>

(* Mutant: SHUTDOWN_COMPLETE frees the contexts but keeps the set. *)
MutTokensAfterShutdown == datagramSendContexts

TokensAfterShutdown == {}

(* SHUTDOWN_COMPLETE: MsQuic has canceled what it had queued; the contexts *)
(* whose DatagramSend is still to come are freed here.                     *)
OnShutdownComplete(vetoed) ==
  /\ ~mqClosed /\ MayVeto(vetoed)
  /\ \A t \in Senders : datagram[t] \notin Queued
  /\ mqClosed' = TRUE
  /\ \/ vetoed /\ UNCHANGED mine
     \/ /\ ~vetoed
        /\ datagramSendContexts' = TokensAfterShutdown
        /\ retained' = retained \ datagramSendContexts
        /\ ResumeAll(SendsAt(datagramSendContexts), "error")
        /\ UNCHANGED mistaken
  /\ UNCHANGED <<pc, address, eventHandler, datagram>>

-----------------------------------------------------------------------------
Next ==
  \/ \E t \in Senders : \/ Prepare(t) \/ DatagramSend(t) \/ SendFail(t) \/ Return(t)
                        \/ \E vetoed \in BOOLEAN : OnSendStateChanged(t, vetoed)
  \/ \E vetoed \in BOOLEAN : OnShutdownComplete(vetoed)
  \/ SetEventHandler

Spec == Init /\ [][Next]_vars

(* A task in a call runs; MsQuic sends or cancels what it has queued. *)
Fairness ==
  \A t \in Senders :
    /\ WF_vars(DatagramSend(t) \/ SendFail(t)) /\ WF_vars(Return(t))
    /\ WF_vars(datagram[t] \in Queued /\ \E vetoed \in BOOLEAN : OnSendStateChanged(t, vetoed))

FairSpec == Spec /\ Fairness

-----------------------------------------------------------------------------
(* A send is resumed once, by its failure, by an event or by               *)
(* SHUTDOWN_COMPLETE, whichever takes its token.                           *)
NoDoubleResume == ~trapped

(* Every context under passRetained is in the set of tokens: none leaks,   *)
(* and no token points to memory that was freed.                           *)
TokensAreRetained == datagramSendContexts = retained

(* While MsQuic has a datagram in its queue the buffer it will read is the *)
(* sender's own: the context is still there.  Only a report about another  *)
(* datagram that names the same address can have freed it.                 *)
QueuedBufferIsAlive ==
  \A t \in Senders : datagram[t] \in Queued =>
    (address[t] \in retained /\ Holds(t, address[t])) \/ t \in mistaken

(* The datagram has left MsQuic's queue, not by being canceled. *)
WasSent(t) == datagram[t] \in {"sent", "lostSuspect"} \cup (Final \ {"canceled"})

(* A call that returned was sent, unless a report about another datagram   *)
(* at its address answered it.                                             *)
AnsweredIsSent == \A t \in Senders : continuation[t] = "ok" => WasSent(t) \/ t \in mistaken

(* Such a report needs a heap that gives an address out again while MsQuic *)
(* still follows the datagram that had it: that one was sent and has since *)
(* been acknowledged or given up, and its context was gone before.         *)
MistakenAfterReuse ==
  \A t \in mistaken : \E u \in Senders \ {t} :
    /\ address[u] = address[t]
    /\ datagram[u] \in Final \ {"canceled"}
    /\ ~Holds(u, address[u])

(* The doc of sendDatagram: it throws "if the send fails or the datagram   *)
(* is canceled before it is sent".  A call that returned was sent.         *)
ReturnedIsSent == \A t \in Senders : continuation[t] = "ok" => WasSent(t)

(* sendDatagram() returns or throws, if no event is kept from the wrapper. *)
SendReturns ==
  \A t \in Senders : pc[t] = "api" ~> (pc[t] = "done" \/ eventHandler = "vetoing")
===============================================================================
