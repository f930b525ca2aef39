----------------------------- MODULE MCOffload ------------------------------
(***************************************************************************)
(* TLC instances of the offloads beside the VPN: the one-use preparations  *)
(* of Telegram outbounds, the Telegram outbound itself, the local DPI      *)
(* outbounds, and the walks that accept their fallback.  They share no     *)
(* variable; `part` names the one whose steps a behaviour takes.  "tcp",   *)
(* "quic" and "batch" are local DPI: two TCP flows of one holder, a TCP    *)
(* and a UDP flow of one holder, and one TCP flow beside a second holder.  *)
(* The tokens of preparations and the Telegram flows are the same two      *)
(* model values, which the symmetry of a run exchanges.                    *)
(***************************************************************************)
EXTENDS Preparations, Sequences, TLC

CONSTANTS
    Parts,                                             \* those a run explores
    DpiFlows, TelegramFlows, Tags, MaxMembers,
    i1, i2, o1, o2, g1, g2, h1, h2, f1, f2, a1, a2, a3, c1, c2

VARIABLES
    part, graph,
    admission, id, proofWait, dpiCancelled, runtime, completed, reason,
    withdrawal, doomed, stop, stopList, retry, retryList, dpiPc, local, gen,
    dpiCtx, dpiSock, used, responded, writing, reports,
    inWindow, ahead, parent, admitted, withdrawn, closed, cancelled, cleaner,
    list, closer, closeList, down, registered, wsPc, ctx, tail, marked, transferred,
    deadline, sock, payload

OneHolder == [f \in DpiFlows |-> h1]
TwoTCP == [f \in DpiFlows |-> "tcp"]
BesideQuic == [f \in DpiFlows |-> IF f = f1 THEN "tcp" ELSE "quic"]

\* The holders and the kinds of flows differ between the parts.
Dpi(Holders, HolderOf, Kind) == INSTANCE LocalDpi WITH
    Flows <- DpiFlows,
    cancelled <- dpiCancelled, pc <- dpiPc, ctx <- dpiCtx, sock <- dpiSock

\* The same, for temporal properties: TLC reads no action property through an
\* instance that has parameters.
OneDpi == INSTANCE LocalDpi WITH
    Holders <- {h1}, HolderOf <- OneHolder, Kind <- TwoTCP, Flows <- DpiFlows,
    cancelled <- dpiCancelled, pc <- dpiPc, ctx <- dpiCtx, sock <- dpiSock

Telegram == INSTANCE TelegramWS WITH Flows <- TelegramFlows, pc <- wsPc
Walks == INSTANCE FallbackGraph

dpiVars == <<admission, id, proofWait, dpiCancelled, runtime, completed, reason,
             withdrawal, doomed, stop, stopList, retry, retryList, dpiPc, local,
             gen, dpiCtx, dpiSock, used, responded, writing, reports>>
wsVars == <<inWindow, ahead, parent, admitted, withdrawn, closed, cancelled,
            cleaner, list, closer, closeList, down, registered, wsPc, ctx, tail, marked,
            transferred, deadline, sock, payload>>

ASSUME OffloadConstants ==
    /\ Dpi({h1}, OneHolder, TwoTCP)!FlowsAssumption
    /\ Dpi({h1}, OneHolder, BesideQuic)!FlowsAssumption
    /\ Dpi({h1, h2}, OneHolder, TwoTCP)!FlowsAssumption
    /\ Telegram!FlowsAssumption /\ Walks!TagsAssumption

\* A part that does not move begins in one of its initial states.
OffloadInit ==
    /\ part \in Parts /\ Init /\ Telegram!Init /\ Walks!Init
    /\ IF part = "batch" THEN Dpi({h1, h2}, OneHolder, TwoTCP)!Init
       ELSE Dpi({h1}, OneHolder, TwoTCP)!Init

OffloadNext ==
    /\ UNCHANGED part
    /\ \/ part = "prepare" /\ Next /\ UNCHANGED <<graph, dpiVars, wsVars>>
       \/ part = "graph" /\ Walks!Next /\ UNCHANGED <<vars, dpiVars, wsVars>>
       \/ /\ part = "tcp" /\ Dpi({h1}, OneHolder, TwoTCP)!Next
          /\ UNCHANGED <<vars, graph, wsVars>>
       \/ /\ part = "quic" /\ Dpi({h1}, OneHolder, BesideQuic)!Next
          /\ UNCHANGED <<vars, graph, wsVars>>
       \/ /\ part = "batch" /\ Dpi({h1, h2}, OneHolder, TwoTCP)!Next
          /\ UNCHANGED <<vars, graph, wsVars>>
       \/ part = "telegram" /\ Telegram!Next /\ UNCHANGED <<vars, graph, dpiVars>>

OffloadSpec == OffloadInit /\ [][OffloadNext]_<<part, vars, graph, dpiVars, wsVars>>

\* The fairness of LocalDpi and TelegramWS, for the part that moves.
OffloadFairSpec ==
    /\ OffloadSpec /\ Telegram!Fairness
    /\ \A f \in DpiFlows : WF_dpiVars(\/ Dpi({h1}, OneHolder, TwoTCP)!FlowGoesOn(f)
                                       \/ Dpi({h1}, OneHolder, TwoTCP)!FlowIsOver(f))
    /\ WF_dpiVars(Dpi({h1}, OneHolder, TwoTCP)!Closing(h1))
    /\ WF_dpiVars(part = "tcp" /\ Dpi({h1}, OneHolder, TwoTCP)!ProofDeadline(h1))

-----------------------------------------------------------------------------
(* Bounds.                                                                 *)

One(flag) == IF flag THEN 1 ELSE 0

\* Bound: the flow beside the second holder is alone, and one holder closes.
OneFlowInBatch ==
    part = "batch" => /\ \A f \in DpiFlows \ {f1} : dpiPc[f] = "new"
                      /\ stop[h1] = "no" \/ stop[h2] = "no"

\* Bound: beside a UDP flow the holder closes or its instance ends, not both.
OneEndBesideQuic == part = "quic" => runtime \/ stop[h1] = "no"

\* Bound: with two TCP flows the first comes first, only it is cancelled, and
\* the holder meets withdrawal and retry; its end is met by the other two.
FlowsInOrder ==
    part = "tcp" =>
        /\ runtime /\ stop[h1] = "no"
        /\ \A f \in DpiFlows \ {f1} :
              (dpiPc[f] # "new" => dpiPc[f1] # "new") /\ dpiCtx[f] # "cancelled"

\* Bound: at most one of the clocks and contexts around the Telegram outbound
\* has run out, or else its path is put aside; or else Close has begun and the
\* caller of one flow has cancelled it. Withdrawals besides.
FewEndings ==
    LET around == One(~inWindow) + One(~ahead) + One(~parent) + One(down)
        cancels == Cardinality({c \in TelegramFlows : ctx[c] = "cancelled" \/ tail[c] = "cancel"})
    IN  around + cancels <= 1 /\ around + One(closer # "no") <= 1

Bounds == OneFlowInBatch /\ OneEndBesideQuic /\ FlowsInOrder /\ FewEndings

-----------------------------------------------------------------------------
(* The properties of the parts; their modules say what each name means.    *)

\* Every variable has its type; the retry of local DPI is used once.
TypesOK ==
    /\ TypeOK /\ Telegram!TypeOK
    /\ part \in {"tcp", "quic"} => Dpi({h1}, OneHolder, TwoTCP)!TypeOK
    /\ part = "batch" => Dpi({h1, h2}, OneHolder, TwoTCP)!TypeOK

\* LocalDpi and TelegramWS: an open stream of the offload has a current
\* admission, is on the list of whoever ended it or is being closed; when Close
\* has returned no dial of local DPI runs, and no gateway of Telegram is attached
\* but one that another goroutine is about to close.
StreamsEndWithAdmission ==
    /\ Dpi({h1}, OneHolder, TwoTCP)!OldStreamsClose
    /\ Telegram!StreamsEndWithAdmission
    /\ IF part = "quic" THEN Dpi({h1}, OneHolder, BesideQuic)!ClosedIsEmpty
       ELSE Dpi({h1}, OneHolder, TwoTCP)!ClosedIsEmpty
    /\ Telegram!ClosedIsEmpty

\* LocalDpi and TelegramWS: endings and failures concern their own. An ending
\* leaves the streams of the VPN alone (handed over without a read deadline)
\* and those of the holder that a retry has just made; a holder fails by a used
\* flow of its own generation, a gateway is put aside for what it did itself.
EndingsSpareOthers ==
    /\ OneDpi!VPNStreamsStay /\ OneDpi!RetrySparesNew /\ OneDpi!FailureIsOwn
    /\ Telegram!TransferredStays /\ Telegram!BlameIsEarned
    /\ []Telegram!HandedOverClean

\* LocalDpi and TelegramWS: nothing passes outside of its admission. A flow that
\* waits for the proof goes nowhere before it, a withdrawn holder is never
\* published again, and payload is committed under an open admission only.
NothingOutOfAdmission ==
    /\ OneDpi!NoEscapeBeforeProof /\ OneDpi!WithdrawnForGood
    /\ Telegram!NoLatePayload

\* LocalDpi and TelegramWS: nobody waits for ever. A flow that waits for a proof
\* goes on, a closed holder gets rid of its flows, a denied admission wakes every
\* flow in its setup, and every gateway it leaves attached is closed.
WaitersWake ==
    /\ OneDpi!WaitersWake /\ OneDpi!CloseReleases
    /\ Telegram!WithdrawalWakes /\ Telegram!StreamsClose

\* FallbackGraph: each outbound accepts the targets from which all a stream can
\* pass through is protected, without a loop, and no others; a prepared
\* fallback is bound as a whole.
WalksFollowGraph ==
    part = "graph" =>
      Walks!StartFollowsGroups /\ Walks!LocalFollowsDetours /\ Walks!BoundAsAWhole

-----------------------------------------------------------------------------
Symmetry == Permutations({c1, c2})
=============================================================================
