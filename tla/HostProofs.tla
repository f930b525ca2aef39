----------------------------- MODULE HostProofs -----------------------------
(***************************************************************************)
(* What TLAPS proves of what hosts drive: of LinuxDaemon for any set of    *)
(* commands, any clock and any number of lines linuxd writes, and of       *)
(* CandidateProbe for any number of probes, identifiers and cancellations. *)
(***************************************************************************)
EXTENDS MCHost, TLAPS

-----------------------------------------------------------------------------
(* The Linux daemon (LinuxDaemon).                                         *)

\* Where the serving goroutine owes an answer to a command it has taken.
Answering == {"launch", "starting", "check", "announce", "probing", "confirm",
              "lock", "locked", "storing", "promoted", "revoking"}

Promoting == {"confirm", "lock", "locked", "storing"}

\* Where the core has been announced.
Serving == {"loop", "probing", "revoking", "promoted"} \cup Promoting

-----------------------------------------------------------------------------
(* Facts about the sequence of replies.                                    *)

\* ReplyOrder, of any sequence of phases.
Follows(s, b, a) ==
    \A j \in DOMAIN s : s[j] = b => \E i \in 1 .. j - 1 : s[i] = a

Once(s, a) == \A i, j \in DOMAIN s : s[i] = a /\ s[j] = a => i = j

Ordered(s) ==
    /\ \A p \in {"prepared", "started", "promoted", "stopped"} : Once(s, p)
    /\ \A p \in {"health", "promoted"} : Follows(s, p, "started")
    /\ Follows(s, "started", "prepared") /\ Follows(s, "lease_revoked", "promoted")
    /\ \A i \in DOMAIN s : s[i] = "stopped" => i = Len(s)

\* A reply is added at the end and changes nothing before it.
LEMMA AppendFacts ==
  ASSUME NEW s \in Seq(Phases), NEW x \in Phases
  PROVE  /\ Append(s, x) \in Seq(Phases)
         /\ Len(Append(s, x)) = Len(s) + 1 /\ Append(s, x) # <<>>
         /\ DOMAIN Append(s, x) = 1 .. Len(s) + 1
         /\ \A i \in 1 .. Len(s) : Append(s, x)[i] = s[i]
         /\ Append(s, x)[Len(s) + 1] = x
  OBVIOUS

LEMMA AppendRange ==
  ASSUME NEW s \in Seq(Phases), NEW x \in Phases
  PROVE  Range(Append(s, x)) = Range(s) \cup {x}
<1> DEFINE t == Append(s, x)
<1> HIDE DEF t
<1>1. DOMAIN t = 1 .. Len(s) + 1 /\ t[Len(s) + 1] = x /\ Len(s) \in Nat
      /\ DOMAIN s = 1 .. Len(s)
  BY AppendFacts DEF t
<1>2. \A i \in 1 .. Len(s) : t[i] = s[i]
  BY AppendFacts DEF t
<1>3. Range(t) = Range(s) \cup {x}
  BY <1>1, <1>2 DEF Range
<1>4. QED
  BY <1>3 DEF t

LEMMA FollowsAppend ==
  ASSUME NEW s \in Seq(Phases), NEW x \in Phases, NEW b \in Phases,
         NEW a \in Phases, Follows(s, b, a), x = b => a \in Range(s)
  PROVE  Follows(Append(s, x), b, a)
<1> DEFINE t == Append(s, x)
           n == Len(s)
<1> HIDE DEF t, n
<1>1. /\ n \in Nat /\ DOMAIN s = 1 .. n
      /\ DOMAIN t = 1 .. n + 1 /\ t[n + 1] = x
  BY AppendFacts DEF t, n
<1>2. \A i \in 1 .. n : t[i] = s[i]
  BY AppendFacts DEF t, n
<1>3. x = b => \E i \in 1 .. n : s[i] = a
  BY <1>1 DEF Range
<1>4. ASSUME NEW j \in DOMAIN t, t[j] = b
      PROVE  \E i \in 1 .. j - 1 : t[i] = a
  <2>1. CASE j \in 1 .. n
    <3>1. PICK i \in 1 .. j - 1 : s[i] = a
      BY <2>1, <1>1, <1>2, <1>4 DEF Follows
    <3>2. QED
      BY <3>1, <2>1, <1>1, <1>2
  <2>2. CASE j = n + 1
    BY <2>2, <1>1, <1>2, <1>3, <1>4
  <2>3. QED
    BY <2>1, <2>2, <1>1
<1>5. QED
  BY <1>4 DEF Follows, t

LEMMA OnceAppend ==
  ASSUME NEW s \in Seq(Phases), NEW x \in Phases, NEW a \in Phases,
         Once(s, a), x = a => a \notin Range(s)
  PROVE  Once(Append(s, x), a)
<1> DEFINE t == Append(s, x)
           n == Len(s)
<1> HIDE DEF t, n
<1>1. /\ n \in Nat /\ DOMAIN s = 1 .. n
      /\ DOMAIN t = 1 .. n + 1 /\ t[n + 1] = x
  BY AppendFacts DEF t, n
<1>2. \A i \in 1 .. n : t[i] = s[i]
  BY AppendFacts DEF t, n
<1>3. x = a => \A i \in 1 .. n : s[i] # a
  BY <1>1 DEF Range
<1>4. ASSUME NEW i \in DOMAIN t, NEW j \in DOMAIN t, t[i] = a, t[j] = a
      PROVE  i = j
  <2>1. CASE i \in 1 .. n /\ j \in 1 .. n
    BY <2>1, <1>1, <1>2, <1>4 DEF Once
  <2>2. CASE i = n + 1 \/ j = n + 1
    BY <2>2, <1>1, <1>2, <1>3, <1>4
  <2>3. QED
    BY <2>1, <2>2, <1>1
<1>5. QED
  BY <1>4 DEF Once, t

\* A phase that is due keeps the order.
LEMMA OrderedAppend ==
  ASSUME NEW s \in Seq(Phases), NEW x \in Phases, Ordered(s),
         "stopped" \notin Range(s),
         x \in {"prepared", "started", "promoted"} => x \notin Range(s),
         x \in {"health", "promoted"} => "started" \in Range(s),
         x = "started" => "prepared" \in Range(s),
         x = "lease_revoked" => "promoted" \in Range(s)
  PROVE  Ordered(Append(s, x))
<1>1. ASSUME NEW p \in {"prepared", "started", "promoted", "stopped"}
      PROVE  Once(Append(s, x), p)
  BY OnceAppend DEF Ordered, Phases
<1>2. ASSUME NEW p \in {"health", "promoted"}
      PROVE  Follows(Append(s, x), p, "started")
  BY FollowsAppend DEF Ordered, Phases
<1>3. /\ Follows(Append(s, x), "started", "prepared")
      /\ Follows(Append(s, x), "lease_revoked", "promoted")
  BY FollowsAppend DEF Ordered, Phases
<1>4. \A i \in DOMAIN Append(s, x) :
        Append(s, x)[i] = "stopped" => i = Len(Append(s, x))
  <2>1. \A i \in 1 .. Len(s) : s[i] # "stopped"
    BY DEF Range
  <2>2. QED
    BY <2>1, AppendFacts
<1>5. QED
  BY <1>1, <1>2, <1>3, <1>4 DEF Ordered

-----------------------------------------------------------------------------
(* The inductive invariant.                                                *)

\* TypeOK without the bound on the number of replies.
Types ==
    /\ clock \in 0 .. MaxClock /\ clockLost \in BOOLEAN
    /\ ctx \in {"live", "signal", "deadline", "lease", "returned"}
    /\ offer \in Commands \cup {None, Closed} /\ sent \in 0 .. MaxCommands
    /\ pc \in {"setup", "first", "stopping", "done"} \cup Answering \cup Serving
    /\ command \in Command \cup {None} /\ bound \in BOOLEAN /\ deadline \in Deadline
    /\ limit \in Nat /\ seen \in Nat
    /\ mutex \in {"free", "serve", "watch"}
    /\ watch \in {"none", "idle", "held", "gone"}
    /\ core \in {"off", "starting", "on"}
    /\ replies \in Seq(Phases) /\ result \in {"nil", "error"}

\* Every reply but the first and the last answers a line that was read.
CountInv ==
    /\ pc = "setup" => replies = <<>> /\ offer = None
    /\ pc \notin {"setup", "done"} =>
         /\ Len(replies) <= sent + 1
         /\ pc \in Answering \/ offer \in Commands => Len(replies) <= sent
         /\ pc \in Answering /\ offer \in Commands => Len(replies) + 1 <= sent
    /\ Len(replies) <= sent + 2

\* promotionMu, and what its holder may rely on.
LockInv ==
    /\ pc \in {"locked", "storing"} <=> mutex = "serve"
    /\ watch = "held" <=> mutex = "watch"
    /\ watch = "held" => seen = limit
    /\ pc = "storing" => ctx \notin {"deadline", "lease"}
    /\ pc \in Promoting => limit = 0 /\ command \in Command

\* What has been written at each place of the serving goroutine.
PhaseInv ==
    /\ pc \in {"first", "launch", "starting", "check", "announce"} =>
         limit = 0 /\ Range(replies) = {"prepared"}
    /\ pc = "setup" => limit = 0
    /\ pc \in Serving => "started" \in Range(replies)
    /\ limit = 0 => "promoted" \notin Range(replies)
    /\ pc = "promoted" => limit # 0 /\ "promoted" \notin Range(replies)
    /\ pc = "revoking" => limit # 0
    /\ limit # 0 /\ pc \in {"loop", "probing", "revoking"} =>
         "promoted" \in Range(replies)

\* The last reply and the core.
ExitInv ==
    /\ "stopped" \in Range(replies) => pc = "done" /\ core = "off"
    /\ pc = "done" /\ result = "nil" => "stopped" \in Range(replies)

\* The deadline of a bound start is fixed when its watcher exists.
DeadlineInv ==
    /\ watch # "none" => deadline.from <= clock
    /\ pc \in {"setup", "first"} => watch = "none"
    /\ ctx \in {"deadline", "lease"} => watch = "gone"
    /\ ctx = "deadline" => clockLost \/ clock >= deadline.until

IndInv == /\ Types /\ CountInv /\ LockInv /\ PhaseInv /\ ExitInv /\ DeadlineInv
          /\ PromotionOrExpiry /\ Ordered(replies)

-----------------------------------------------------------------------------
(* Every conjunct is kept by every step.                                   *)

\* The bounds and the shape of the commands.
LEMMA CommandFacts ==
  /\ MaxCommands \in Nat /\ MaxClock \in Nat /\ Commands \subseteq Command
  /\ None \notin Commands /\ Closed \notin Commands /\ None # Closed
  /\ \A c \in Commands : c.action \in Actions
<1>1. \A c \in Command : c.action \in Actions
  BY DEF Command
<1>2. None.action \notin Actions /\ Closed.action \notin Actions
      /\ None.action # Closed.action
  BY DEF None, Closed, Actions
<1>3. QED
  BY <1>1, <1>2, CommandsAssumption, BoundsAssumption

\* The offer of the reader is an accepted command or has no action of one.
LEMMA OfferFacts ==
  ASSUME Types
  PROVE  /\ offer.action \in Actions => offer \in Commands /\ offer \in Command
         /\ offer = Closed => offer.action = "closed"
         /\ offer \in Command =>
              /\ offer.deadline \in Deadline
              /\ [offer EXCEPT !.remaining = clock + @] \in Command
<1>1. offer.action \in Actions => offer \in Commands
  BY DEF Types, None, Closed, Actions
<1>2. offer \in Command => /\ offer.deadline \in Deadline
                          /\ [offer EXCEPT !.remaining = clock + @] \in Command
  BY CommandFacts DEF Types, Command
<1>3. QED
  BY <1>1, <1>2, CommandFacts DEF Closed

\* The numbers CountInv compares.
LEMMA CountFacts ==
  ASSUME Types
  PROVE  sent \in Nat /\ Len(replies) \in Nat
BY BoundsAssumption DEF Types

\* Every variable keeps its type.
LEMMA TypesStep ==
  ASSUME Types, LockInv, [Next]_vars
  PROVE  Types'
<1>1. CASE ReadLine
  BY <1>1, OfferFacts, CommandFacts, BoundsAssumption DEF ReadLine, server,
     watcher, Types, Answering, Serving, Promoting, Actions
<1>2. CASE ReaderEnds
  BY <1>2, OfferFacts, CommandFacts DEF ReaderEnds, server, watcher, Types,
     Answering, Serving, Promoting, Actions
<1>3. CASE Setup
  BY <1>3, AppendFacts, SMTT(30) DEF Setup, Return, Reply, watcher, environment, Types,
     Answering, Serving, Promoting, Phases, Actions
<1>4. CASE FirstCommand
  <2>1. offer' \in Commands \cup {None, Closed}
    BY <1>4 DEF FirstCommand, Types
  <2>2. deadline' \in Deadline
    BY <1>4, OfferFacts DEF FirstCommand, Types, Actions
  <2>3. /\ pc' \in {"launch", "stopping"} /\ bound' \in BOOLEAN
        /\ watch' \in {"none", "idle", "held", "gone"} /\ result' \in {"nil", "error"}
    BY <1>4 DEF FirstCommand, Return, Types
  <2>4. QED
    BY <1>4, <2>1, <2>2, <2>3 DEF FirstCommand, Types, Answering
<1>5. CASE ContextDone
  BY <1>5 DEF ContextDone, Return, watcher, environment, Types, Answering,
     Serving, Promoting, Actions
<1>6. CASE Launch
  BY <1>6 DEF Launch, Return, watcher, environment, Types, Answering,
     Serving, Promoting, Actions
<1>7. CASE StartReturns
  BY <1>7 DEF StartReturns, Return, watcher, environment, Types, Answering,
     Serving, Promoting, Actions
<1>8. CASE CheckStarted
  BY <1>8 DEF CheckStarted, Return, Current, watcher, environment, Types,
     Answering, Serving, Promoting, Actions
<1>9. CASE Announce
  BY <1>9, AppendFacts, SMTT(30) DEF Announce, Return, Reply, watcher, environment,
     Types, Answering, Serving, Promoting, Phases, Actions
<1>10. CASE NextCommand
  BY <1>10, OfferFacts, CommandFacts DEF NextCommand, Return, MayPromote,
     MayRevoke, watcher, Types, Answering, Serving, Promoting, Actions
<1>11. CASE Health
  BY <1>11, AppendFacts, SMTT(30) DEF Health, Return, Reply, watcher, environment,
     Types, Answering, Serving, Promoting, Phases, Actions
<1>12. CASE Confirm
  BY <1>12 DEF Confirm, Return, watcher, environment, Types, Answering,
     Serving, Promoting, Actions
<1>13. CASE PromotionLock
  BY <1>13 DEF PromotionLock, watcher, environment, Types, Answering,
     Serving, Promoting, Actions
<1>14. CASE PromotionCheck
  BY <1>14 DEF PromotionCheck, Return, Current, watcher, environment, Types,
     Answering, Serving, Promoting, Actions
<1>15. CASE PromotionStore
  <2>1. command.remaining \in Nat
    BY <1>15 DEF PromotionStore, LockInv, Promoting, Command
  <2>2. QED
    BY <1>15, <2>1 DEF PromotionStore, watcher, environment, Types, Answering,
                     Serving, Promoting
<1>16. CASE Promoted
  BY <1>16, AppendFacts, SMTT(30) DEF Promoted, Return, Reply, watcher, environment,
     Types, Answering, Serving, Promoting, Phases, Actions
<1>17. CASE Revoke
  BY <1>17, AppendFacts, SMTT(30) DEF Revoke, Return, Reply, watcher, environment,
     Types, Answering, Serving, Promoting, Phases, Actions
<1>18. CASE DeferredStop
  BY <1>18, AppendFacts DEF DeferredStop, watcher, environment, Types,
     Answering, Serving, Promoting, Phases, Actions
<1>19. CASE WatchLock
  BY <1>19 DEF WatchLock, environment, Types, Answering, Serving, Promoting,
     Actions
<1>20. CASE WatchJudge
  BY <1>20 DEF WatchJudge, Overdue, Current, environment, Types, Answering,
     Serving, Promoting, Actions
<1>21. CASE WatchEnds
  BY <1>21 DEF WatchEnds, server, environment, Types, Answering, Serving,
     Promoting, Actions
<1>22. CASE Signal
  BY <1>22 DEF Signal, server, watcher, environment, Types, Answering,
     Serving, Promoting, Actions
<1>23. CASE Tick
  BY <1>23, BoundsAssumption DEF Tick, server, watcher, Types, Answering,
     Serving, Promoting, Actions
<1>24. CASE ClockFails
  BY <1>24 DEF ClockFails, server, watcher, Types, Answering, Serving,
     Promoting, Actions
<1>25. CASE UNCHANGED vars
  BY <1>25 DEF vars, Types, Answering, Serving, Promoting, Phases, Actions
<1>26. QED
  BY <1>1, <1>2, <1>3, <1>4, <1>5, <1>6, <1>7, <1>8, <1>9, <1>10, <1>11, <1>12, <1>13,
     <1>14, <1>15, <1>16, <1>17, <1>18, <1>19, <1>20, <1>21, <1>22, <1>23, <1>24, <1>25
     DEF Next, Serve, Watch, Done

\* Either goroutine holds promotionMu alone.
LEMMA LockStep ==
  ASSUME Types, LockInv, DeadlineInv, [Next]_vars
  PROVE  LockInv'
<1>1. CASE ReadLine
  BY <1>1 DEF ReadLine, server, watcher, LockInv, Promoting
<1>2. CASE ReaderEnds
  BY <1>2 DEF ReaderEnds, server, watcher, LockInv, Promoting
<1>3. CASE Setup
  BY <1>3 DEF Setup, Return, Reply, watcher, environment, LockInv, Promoting
<1>4. CASE FirstCommand
  <2>1. pc' \in {"launch", "stopping"}
    BY <1>4 DEF FirstCommand, Return
  <2>2. watch = "none" /\ watch' \in {"none", "idle"}
    BY <1>4 DEF FirstCommand, DeadlineInv
  <2>3. QED
    BY <1>4, <2>1, <2>2 DEF FirstCommand, LockInv, Promoting
<1>5. CASE ContextDone
  BY <1>5 DEF ContextDone, Return, watcher, environment, LockInv, Promoting
<1>6. CASE Launch
  BY <1>6 DEF Launch, Return, watcher, environment, LockInv, Promoting
<1>7. CASE StartReturns
  BY <1>7 DEF StartReturns, Return, watcher, environment, LockInv, Promoting
<1>8. CASE CheckStarted
  BY <1>8 DEF CheckStarted, Return, Current, watcher, environment, LockInv,
     Promoting
<1>9. CASE Announce
  BY <1>9 DEF Announce, Return, Reply, watcher, environment, LockInv,
     Promoting
<1>10. CASE NextCommand
  <2>1. pc' = "confirm" => limit = 0 /\ command' \in Command
    BY <1>10, OfferFacts DEF NextCommand, Return, MayPromote, Actions
  <2>2. pc' \in {"stopping", "probing", "confirm", "revoking"}
    BY <1>10 DEF NextCommand, Return
  <2>3. QED
    BY <1>10, <2>1, <2>2 DEF NextCommand, watcher, LockInv, Promoting
<1>11. CASE Health
  BY <1>11 DEF Health, Return, Reply, watcher, environment, LockInv, Promoting
<1>12. CASE Confirm
  BY <1>12 DEF Confirm, Return, watcher, environment, LockInv, Promoting
<1>13. CASE PromotionLock
  BY <1>13 DEF PromotionLock, watcher, environment, LockInv, Promoting
<1>14. CASE PromotionCheck
  BY <1>14 DEF PromotionCheck, Return, Current, watcher, environment,
     LockInv, Promoting
<1>15. CASE PromotionStore
  BY <1>15 DEF PromotionStore, watcher, environment, LockInv, Promoting
<1>16. CASE Promoted
  BY <1>16 DEF Promoted, Return, Reply, watcher, environment, LockInv,
     Promoting
<1>17. CASE Revoke
  BY <1>17 DEF Revoke, Return, Reply, watcher, environment, LockInv, Promoting
<1>18. CASE DeferredStop
  BY <1>18 DEF DeferredStop, watcher, environment, LockInv, Promoting
<1>19. CASE WatchLock
  BY <1>19 DEF WatchLock, environment, LockInv, Promoting
<1>20. CASE WatchJudge
  BY <1>20 DEF WatchJudge, Overdue, Current, environment, LockInv, Promoting
<1>21. CASE WatchEnds
  BY <1>21 DEF WatchEnds, server, environment, LockInv, Promoting
<1>22. CASE Signal
  BY <1>22 DEF Signal, server, watcher, environment, LockInv, Promoting
<1>23. CASE Tick
  BY <1>23 DEF Tick, server, watcher, LockInv, Promoting
<1>24. CASE ClockFails
  BY <1>24 DEF ClockFails, server, watcher, LockInv, Promoting
<1>25. CASE UNCHANGED vars
  BY <1>25 DEF vars, LockInv, Promoting
<1>26. QED
  BY <1>1, <1>2, <1>3, <1>4, <1>5, <1>6, <1>7, <1>8, <1>9, <1>10, <1>11, <1>12, <1>13,
     <1>14, <1>15, <1>16, <1>17, <1>18, <1>19, <1>20, <1>21, <1>22, <1>23, <1>24, <1>25
     DEF Next, Serve, Watch, Done

\* A reply takes the place of the command it answers.
LEMMA CountStep ==
  ASSUME Types, CountInv, [Next]_vars
  PROVE  CountInv'
<1>1. CASE ReadLine
  BY <1>1, CountFacts, OfferFacts, CommandFacts DEF ReadLine, server,
     watcher, Types, CountInv, Actions, Answering
<1>2. CASE ReaderEnds
  BY <1>2, CountFacts, OfferFacts, CommandFacts DEF ReaderEnds, server,
     watcher, Types, CountInv, Actions, Answering
<1>3. CASE Setup
  <2>1. /\ pc' \in {"first", "stopping", "done"} /\ Len(replies) = 0
        /\ offer' = None /\ sent' = sent
    BY <1>3 DEF Setup, Reply, Return, environment, CountInv
  <2>2. Len(replies') = 0 \/ Len(replies') = 1
    <3>1. replies' \in {replies, Append(replies, "prepared")}
      BY <1>3 DEF Setup, Reply, Return
    <3>2. Len(Append(replies, "prepared")) = 1
      BY <2>1, AppendFacts DEF Types, Phases
    <3>3. QED
      BY <2>1, <3>1, <3>2
  <2>3. offer' \notin Commands /\ pc' \notin Answering /\ pc' # "setup"
    BY <2>1, CommandFacts DEF Answering
  <2>4. Len(replies)' <= sent + 1
    <3>1. sent \in Nat
      BY CountFacts
    <3>2. CASE Len(replies') = 0
      BY <3>1, <3>2
    <3>3. CASE Len(replies') = 1
      BY <3>1, <3>3
    <3>4. QED
      BY <2>2, <3>2, <3>3
  <2>5. QED
    BY <2>1, <2>2, <2>3, <2>4, CountFacts DEF CountInv
<1>4. CASE FirstCommand
  BY <1>4, CountFacts, OfferFacts, CommandFacts DEF FirstCommand, Return,
     Current, Types, CountInv, Actions, Answering
<1>5. CASE ContextDone
  BY <1>5, CountFacts DEF ContextDone, Return, watcher, environment, Types,
     CountInv, Actions, Answering
<1>6. CASE Launch
  BY <1>6, CountFacts DEF Launch, Return, watcher, environment, Types,
     CountInv, Actions, Answering
<1>7. CASE StartReturns
  BY <1>7, CountFacts DEF StartReturns, Return, watcher, environment, Types,
     CountInv, Actions, Answering
<1>8. CASE CheckStarted
  BY <1>8, CountFacts DEF CheckStarted, Return, Current, watcher,
     environment, Types, CountInv, Actions, Answering
<1>9. CASE Announce
  BY <1>9, CountFacts, AppendFacts DEF Announce, Return, Reply, watcher,
     environment, Types, CountInv, Actions, Answering, Phases
<1>10. CASE NextCommand
  BY <1>10, CountFacts, OfferFacts, CommandFacts DEF NextCommand, Return,
     MayPromote, MayRevoke, watcher, Types, CountInv, Actions, Answering
<1>11. CASE Health
  BY <1>11, CountFacts, AppendFacts DEF Health, Return, Reply, watcher,
     environment, Types, CountInv, Actions, Answering, Phases
<1>12. CASE Confirm
  BY <1>12, CountFacts DEF Confirm, Return, watcher, environment, Types,
     CountInv, Actions, Answering
<1>13. CASE PromotionLock
  BY <1>13, CountFacts DEF PromotionLock, watcher, environment, Types,
     CountInv, Actions, Answering
<1>14. CASE PromotionCheck
  BY <1>14, CountFacts DEF PromotionCheck, Return, Current, watcher,
     environment, Types, CountInv, Actions, Answering
<1>15. CASE PromotionStore
  BY <1>15, CountFacts DEF PromotionStore, watcher, environment, Types,
     CountInv, Actions, Answering
<1>16. CASE Promoted
  BY <1>16, CountFacts, AppendFacts DEF Promoted, Return, Reply, watcher,
     environment, Types, CountInv, Actions, Answering, Phases
<1>17. CASE Revoke
  BY <1>17, CountFacts, AppendFacts DEF Revoke, Return, Reply, watcher,
     environment, Types, CountInv, Actions, Answering, Phases
<1>18. CASE DeferredStop
  BY <1>18, CountFacts, AppendFacts DEF DeferredStop, watcher, environment,
     Types, CountInv, Actions, Answering, Phases
<1>19. CASE WatchLock
  BY <1>19, CountFacts DEF WatchLock, environment, Types, CountInv, Actions,
     Answering
<1>20. CASE WatchJudge
  BY <1>20, CountFacts DEF WatchJudge, Overdue, Current, environment, Types,
     CountInv, Actions, Answering
<1>21. CASE WatchEnds
  BY <1>21, CountFacts DEF WatchEnds, server, environment, Types, CountInv,
     Actions, Answering
<1>22. CASE Signal
  BY <1>22, CountFacts DEF Signal, server, watcher, environment, Types,
     CountInv, Actions, Answering
<1>23. CASE Tick
  BY <1>23, CountFacts DEF Tick, server, watcher, Types, CountInv, Actions,
     Answering
<1>24. CASE ClockFails
  BY <1>24, CountFacts DEF ClockFails, server, watcher, Types, CountInv,
     Actions, Answering
<1>25. CASE UNCHANGED vars
  BY <1>25 DEF vars, Types, CountInv, Actions, Answering, Phases
<1>26. QED
  BY <1>1, <1>2, <1>3, <1>4, <1>5, <1>6, <1>7, <1>8, <1>9, <1>10, <1>11, <1>12, <1>13,
     <1>14, <1>15, <1>16, <1>17, <1>18, <1>19, <1>20, <1>21, <1>22, <1>23, <1>24, <1>25
     DEF Next, Serve, Watch, Done

\* A deadline that is over stays over.
LEMMA DeadlineStep ==
  ASSUME Types, LockInv, DeadlineInv, [Next]_vars
  PROVE  DeadlineInv'
<1>1. CASE ReadLine
  BY <1>1, OfferFacts DEF ReadLine, server, watcher, Types, LockInv,
     DeadlineInv, Deadline, Actions
<1>2. CASE ReaderEnds
  BY <1>2, OfferFacts DEF ReaderEnds, server, watcher, Types, LockInv,
     DeadlineInv, Deadline, Actions
<1>3. CASE Setup
  BY <1>3 DEF Setup, Return, Reply, watcher, environment, Types, LockInv,
     DeadlineInv, Deadline, Actions
<1>4. CASE FirstCommand
  BY <1>4, OfferFacts DEF FirstCommand, Return, Current, Types, LockInv,
     DeadlineInv, Deadline, Actions
<1>5. CASE ContextDone
  BY <1>5 DEF ContextDone, Return, watcher, environment, Types, LockInv,
     DeadlineInv, Deadline, Actions
<1>6. CASE Launch
  BY <1>6 DEF Launch, Return, watcher, environment, Types, LockInv,
     DeadlineInv, Deadline, Actions
<1>7. CASE StartReturns
  BY <1>7 DEF StartReturns, Return, watcher, environment, Types, LockInv,
     DeadlineInv, Deadline, Actions
<1>8. CASE CheckStarted
  BY <1>8 DEF CheckStarted, Return, Current, watcher, environment, Types,
     LockInv, DeadlineInv, Deadline, Actions
<1>9. CASE Announce
  BY <1>9 DEF Announce, Return, Reply, watcher, environment, Types, LockInv,
     DeadlineInv, Deadline, Actions
<1>10. CASE NextCommand
  BY <1>10, OfferFacts DEF NextCommand, Return, MayPromote, MayRevoke,
     watcher, Types, LockInv, DeadlineInv, Deadline, Actions
<1>11. CASE Health
  BY <1>11 DEF Health, Return, Reply, watcher, environment, Types, LockInv,
     DeadlineInv, Deadline, Actions
<1>12. CASE Confirm
  BY <1>12 DEF Confirm, Return, watcher, environment, Types, LockInv,
     DeadlineInv, Deadline, Actions
<1>13. CASE PromotionLock
  BY <1>13 DEF PromotionLock, watcher, environment, Types, LockInv,
     DeadlineInv, Deadline, Actions
<1>14. CASE PromotionCheck
  BY <1>14 DEF PromotionCheck, Return, Current, watcher, environment, Types,
     LockInv, DeadlineInv, Deadline, Actions
<1>15. CASE PromotionStore
  BY <1>15 DEF PromotionStore, watcher, environment, Types, LockInv,
     DeadlineInv, Deadline, Actions
<1>16. CASE Promoted
  BY <1>16 DEF Promoted, Return, Reply, watcher, environment, Types, LockInv,
     DeadlineInv, Deadline, Actions
<1>17. CASE Revoke
  BY <1>17 DEF Revoke, Return, Reply, watcher, environment, Types, LockInv,
     DeadlineInv, Deadline, Actions
<1>18. CASE DeferredStop
  BY <1>18 DEF DeferredStop, watcher, environment, Types, LockInv,
     DeadlineInv, Deadline, Actions
<1>19. CASE WatchLock
  BY <1>19 DEF WatchLock, environment, Types, LockInv, DeadlineInv, Deadline,
     Actions
<1>20. CASE WatchJudge
  BY <1>20 DEF WatchJudge, Overdue, Current, environment, Types, LockInv,
     DeadlineInv, Deadline, Actions
<1>21. CASE WatchEnds
  BY <1>21 DEF WatchEnds, server, environment, Types, LockInv, DeadlineInv,
     Deadline, Actions
<1>22. CASE Signal
  BY <1>22 DEF Signal, server, watcher, environment, Types, LockInv,
     DeadlineInv, Deadline, Actions
<1>23. CASE Tick
  BY <1>23 DEF Tick, server, watcher, Types, LockInv, DeadlineInv, Deadline,
     Actions
<1>24. CASE ClockFails
  BY <1>24 DEF ClockFails, server, watcher, Types, LockInv, DeadlineInv,
     Deadline, Actions
<1>25. CASE UNCHANGED vars
  BY <1>25 DEF vars, Types, LockInv, DeadlineInv, Deadline, Actions
<1>26. QED
  BY <1>1, <1>2, <1>3, <1>4, <1>5, <1>6, <1>7, <1>8, <1>9, <1>10, <1>11, <1>12, <1>13,
     <1>14, <1>15, <1>16, <1>17, <1>18, <1>19, <1>20, <1>21, <1>22, <1>23, <1>24, <1>25
     DEF Next, Serve, Watch, Done

\* The loser of promotionMu finds the decision of the winner.
LEMMA ExpiryStep ==
  ASSUME Types, LockInv, DeadlineInv, PromotionOrExpiry, [Next]_vars
  PROVE  PromotionOrExpiry'
<1>1. CASE ReadLine
  BY <1>1 DEF ReadLine, server, watcher, Types, LockInv, PromotionOrExpiry,
     Promoting, DeadlineInv
<1>2. CASE ReaderEnds
  BY <1>2 DEF ReaderEnds, server, watcher, Types, LockInv, PromotionOrExpiry,
     Promoting, DeadlineInv
<1>3. CASE Setup
  BY <1>3 DEF Setup, Return, Reply, watcher, environment, Types, LockInv,
     PromotionOrExpiry, Promoting, DeadlineInv
<1>4. CASE FirstCommand
  BY <1>4 DEF FirstCommand, Return, Current, Types, LockInv,
     PromotionOrExpiry, Promoting, DeadlineInv
<1>5. CASE ContextDone
  BY <1>5 DEF ContextDone, Return, watcher, environment, Types, LockInv,
     PromotionOrExpiry, Promoting, DeadlineInv
<1>6. CASE Launch
  BY <1>6 DEF Launch, Return, watcher, environment, Types, LockInv,
     PromotionOrExpiry, Promoting, DeadlineInv
<1>7. CASE StartReturns
  BY <1>7 DEF StartReturns, Return, watcher, environment, Types, LockInv,
     PromotionOrExpiry, Promoting, DeadlineInv
<1>8. CASE CheckStarted
  BY <1>8 DEF CheckStarted, Return, Current, watcher, environment, Types,
     LockInv, PromotionOrExpiry, Promoting, DeadlineInv
<1>9. CASE Announce
  BY <1>9 DEF Announce, Return, Reply, watcher, environment, Types, LockInv,
     PromotionOrExpiry, Promoting, DeadlineInv
<1>10. CASE NextCommand
  BY <1>10 DEF NextCommand, Return, MayPromote, MayRevoke, watcher, Types,
     LockInv, PromotionOrExpiry, Promoting, DeadlineInv
<1>11. CASE Health
  BY <1>11 DEF Health, Return, Reply, watcher, environment, Types, LockInv,
     PromotionOrExpiry, Promoting, DeadlineInv
<1>12. CASE Confirm
  BY <1>12 DEF Confirm, Return, watcher, environment, Types, LockInv,
     PromotionOrExpiry, Promoting, DeadlineInv
<1>13. CASE PromotionLock
  BY <1>13 DEF PromotionLock, watcher, environment, Types, LockInv,
     PromotionOrExpiry, Promoting, DeadlineInv
<1>14. CASE PromotionCheck
  BY <1>14 DEF PromotionCheck, Return, Current, watcher, environment, Types,
     LockInv, PromotionOrExpiry, Promoting, DeadlineInv
<1>15. CASE PromotionStore
  BY <1>15 DEF PromotionStore, watcher, environment, Types, LockInv,
     PromotionOrExpiry, Promoting, DeadlineInv
<1>16. CASE Promoted
  BY <1>16 DEF Promoted, Return, Reply, watcher, environment, Types, LockInv,
     PromotionOrExpiry, Promoting, DeadlineInv
<1>17. CASE Revoke
  BY <1>17 DEF Revoke, Return, Reply, watcher, environment, Types, LockInv,
     PromotionOrExpiry, Promoting, DeadlineInv
<1>18. CASE DeferredStop
  BY <1>18 DEF DeferredStop, watcher, environment, Types, LockInv,
     PromotionOrExpiry, Promoting, DeadlineInv
<1>19. CASE WatchLock
  BY <1>19 DEF WatchLock, environment, Types, LockInv, PromotionOrExpiry,
     Promoting, DeadlineInv
<1>20. CASE WatchJudge
  BY <1>20 DEF WatchJudge, Overdue, Current, environment, Types, LockInv,
     PromotionOrExpiry, Promoting, DeadlineInv
<1>21. CASE WatchEnds
  BY <1>21 DEF WatchEnds, server, environment, Types, LockInv,
     PromotionOrExpiry, Promoting, DeadlineInv
<1>22. CASE Signal
  BY <1>22 DEF Signal, server, watcher, environment, Types, LockInv,
     PromotionOrExpiry, Promoting, DeadlineInv
<1>23. CASE Tick
  BY <1>23 DEF Tick, server, watcher, Types, LockInv, PromotionOrExpiry,
     Promoting, DeadlineInv
<1>24. CASE ClockFails
  BY <1>24 DEF ClockFails, server, watcher, Types, LockInv,
     PromotionOrExpiry, Promoting, DeadlineInv
<1>25. CASE UNCHANGED vars
  BY <1>25 DEF vars, Types, LockInv, PromotionOrExpiry, Promoting, DeadlineInv
<1>26. QED
  BY <1>1, <1>2, <1>3, <1>4, <1>5, <1>6, <1>7, <1>8, <1>9, <1>10, <1>11, <1>12, <1>13,
     <1>14, <1>15, <1>16, <1>17, <1>18, <1>19, <1>20, <1>21, <1>22, <1>23, <1>24, <1>25
     DEF Next, Serve, Watch, Done

\* What Reply adds to the phases written, and where it leads.
LEMMA ReplyAdds ==
  ASSUME Types, NEW p \in Phases, NEW next, Reply(p, next)
  PROVE  \/ /\ Range(replies') = Range(replies) \cup {p}
            /\ pc' = next /\ result' = result
         \/ Range(replies') = Range(replies) /\ pc' = "stopping" /\ result' = "error"
<1>1. Range(Append(replies, p)) = Range(replies) \cup {p}
  BY AppendRange DEF Types
<1>2. CASE replies' = Append(replies, p) /\ pc' = next /\ UNCHANGED result
  BY <1>1, <1>2
<1>3. CASE Return("error") /\ UNCHANGED replies
  BY <1>3 DEF Return
<1>4. QED
  BY <1>2, <1>3 DEF Reply

\* No reply but the last one of the deferred stop is stopped.
LEMMA ReplyExit ==
  ASSUME Types, ExitInv, pc # "done", NEW p \in Phases \ {"stopped"},
         NEW next, next # "done", Reply(p, next)
  PROVE  ExitInv'
  BY ReplyAdds DEF ExitInv

\* Stopped is the last reply.
LEMMA ExitStep ==
  ASSUME Types, ExitInv, [Next]_vars
  PROVE  ExitInv'
<1>1. CASE ReadLine
  BY <1>1 DEF ReadLine, server, watcher, Types, ExitInv
<1>2. CASE ReaderEnds
  BY <1>2 DEF ReaderEnds, server, watcher, Types, ExitInv
<1>3. CASE Setup
  <2>1. CASE Reply("prepared", "first")
    BY <1>3, <2>1, ReplyExit DEF Setup, Phases
  <2>2. CASE pc' = "done" /\ result' = "error" /\ UNCHANGED replies
    BY <1>3, <2>2 DEF Setup, ExitInv
  <2>3. QED
    BY <1>3, <2>1, <2>2 DEF Setup
<1>4. CASE FirstCommand
  BY <1>4 DEF FirstCommand, Return, Current, Types, ExitInv
<1>5. CASE ContextDone
  BY <1>5 DEF ContextDone, Return, watcher, environment, Types, ExitInv
<1>6. CASE Launch
  BY <1>6 DEF Launch, Return, watcher, environment, Types, ExitInv
<1>7. CASE StartReturns
  BY <1>7 DEF StartReturns, Return, watcher, environment, Types, ExitInv
<1>8. CASE CheckStarted
  BY <1>8 DEF CheckStarted, Return, Current, watcher, environment, Types,
     ExitInv
<1>9. CASE Announce
  BY <1>9, ReplyExit DEF Announce, Phases
<1>10. CASE NextCommand
  BY <1>10 DEF NextCommand, Return, MayPromote, MayRevoke, watcher, Types,
     ExitInv
<1>11. CASE Health
  BY <1>11, ReplyExit DEF Health, Phases
<1>12. CASE Confirm
  BY <1>12 DEF Confirm, Return, watcher, environment, Types, ExitInv
<1>13. CASE PromotionLock
  BY <1>13 DEF PromotionLock, watcher, environment, Types, ExitInv
<1>14. CASE PromotionCheck
  BY <1>14 DEF PromotionCheck, Return, Current, watcher, environment, Types,
     ExitInv
<1>15. CASE PromotionStore
  BY <1>15 DEF PromotionStore, watcher, environment, Types, ExitInv
<1>16. CASE Promoted
  BY <1>16, ReplyExit DEF Promoted, Phases
<1>17. CASE Revoke
  <2>1. CASE Reply("lease_revoked", "loop")
    BY <1>17, <2>1, ReplyExit DEF Revoke, Phases
  <2>2. CASE Return("error") /\ UNCHANGED replies
    BY <1>17, <2>2 DEF Revoke, Return, ExitInv
  <2>3. QED
    BY <1>17, <2>1, <2>2 DEF Revoke
<1>18. CASE DeferredStop
  <2>1. Range(Append(replies, "stopped")) = Range(replies) \cup {"stopped"}
    BY AppendRange DEF Types, Phases
  <2>2. QED
    BY <1>18, <2>1 DEF DeferredStop, ExitInv
<1>19. CASE WatchLock
  BY <1>19 DEF WatchLock, environment, Types, ExitInv
<1>20. CASE WatchJudge
  BY <1>20 DEF WatchJudge, Overdue, Current, environment, Types, ExitInv
<1>21. CASE WatchEnds
  BY <1>21 DEF WatchEnds, server, environment, Types, ExitInv
<1>22. CASE Signal
  BY <1>22 DEF Signal, server, watcher, environment, Types, ExitInv
<1>23. CASE Tick
  BY <1>23 DEF Tick, server, watcher, Types, ExitInv
<1>24. CASE ClockFails
  BY <1>24 DEF ClockFails, server, watcher, Types, ExitInv
<1>25. CASE UNCHANGED vars
  BY <1>25 DEF vars, Types, ExitInv, Phases
<1>26. QED
  BY <1>1, <1>2, <1>3, <1>4, <1>5, <1>6, <1>7, <1>8, <1>9, <1>10, <1>11, <1>12, <1>13,
     <1>14, <1>15, <1>16, <1>17, <1>18, <1>19, <1>20, <1>21, <1>22, <1>23, <1>24, <1>25
     DEF Next, Serve, Watch, Done

\* What is written at each place.
LEMMA PhaseStep ==
  ASSUME Types, CountInv, LockInv, PhaseInv, [Next]_vars
  PROVE  PhaseInv'
<1>1. CASE ReadLine
  BY <1>1, OfferFacts DEF ReadLine, server, watcher, Types, PhaseInv,
     Serving, Promoting
<1>2. CASE ReaderEnds
  BY <1>2, OfferFacts DEF ReaderEnds, server, watcher, Types, PhaseInv,
     Serving, Promoting
<1>3. CASE Setup
  <2>1. Range(replies) = {}
    BY <1>3 DEF Setup, CountInv, Range
  <2>2. Range(Append(replies, "prepared")) = {"prepared"}
    BY <2>1, AppendRange DEF Types, Phases
  <2>3. /\ pc' \in {"first", "stopping", "done"} /\ limit' = 0
        /\ \/ pc' # "first" /\ replies' = replies
           \/ replies' = Append(replies, "prepared")
    BY <1>3 DEF Setup, Reply, Return, PhaseInv
  <2>4. /\ pc' = "first" => Range(replies') = {"prepared"}
        /\ "promoted" \notin Range(replies')
    <3>1. CASE replies' = replies
      BY <3>1, <2>1, <2>2, <2>3
    <3>2. CASE replies' = Append(replies, "prepared")
      BY <3>2, <2>2
    <3>3. QED
      BY <2>3, <3>1, <3>2
  <2>5. QED
    BY <2>3, <2>4 DEF PhaseInv, Serving, Promoting
<1>4. CASE FirstCommand
  BY <1>4, OfferFacts DEF FirstCommand, Return, Current, Types, PhaseInv,
     Serving, Promoting
<1>5. CASE ContextDone
  BY <1>5 DEF ContextDone, Return, watcher, environment, Types, PhaseInv,
     Serving, Promoting
<1>6. CASE Launch
  BY <1>6 DEF Launch, Return, watcher, environment, Types, PhaseInv, Serving,
     Promoting
<1>7. CASE StartReturns
  BY <1>7 DEF StartReturns, Return, watcher, environment, Types, PhaseInv,
     Serving, Promoting
<1>8. CASE CheckStarted
  BY <1>8 DEF CheckStarted, Return, Current, watcher, environment, Types,
     PhaseInv, Serving, Promoting
<1>9. CASE Announce
  <2>1. pc' \in {"loop", "stopping"} /\ limit' = limit
    BY <1>9 DEF Announce, Reply, Return
  <2>2. /\ pc' = "loop" => "started" \in Range(replies')
        /\ "promoted" \notin Range(replies')
    BY <1>9, AppendRange DEF Announce, Reply, Return, Types, Phases, PhaseInv
  <2>3. pc' = "loop" => limit = 0
    BY <1>9 DEF Announce, PhaseInv
  <2>4. QED
    BY <2>1, <2>2, <2>3 DEF PhaseInv, Serving, Promoting
<1>10. CASE NextCommand
  BY <1>10, OfferFacts DEF NextCommand, Return, MayPromote, MayRevoke,
     watcher, Types, PhaseInv, Serving, Promoting
<1>11. CASE Health
  BY <1>11, ReplyAdds DEF Health, PhaseInv, Phases, Serving, Promoting
<1>12. CASE Confirm
  BY <1>12 DEF Confirm, Return, watcher, environment, Types, PhaseInv,
     Serving, Promoting
<1>13. CASE PromotionLock
  BY <1>13 DEF PromotionLock, watcher, environment, Types, PhaseInv, Serving,
     Promoting
<1>14. CASE PromotionCheck
  BY <1>14 DEF PromotionCheck, Return, Current, watcher, environment, Types,
     PhaseInv, Serving, Promoting
<1>15. CASE PromotionStore
  <2>1. limit' # 0
    BY <1>15 DEF PromotionStore, LockInv, Promoting, Command
  <2>2. "promoted" \notin Range(replies) /\ "started" \in Range(replies)
    BY <1>15 DEF PromotionStore, LockInv, PhaseInv, Serving, Promoting
  <2>3. QED
    BY <1>15, <2>1, <2>2 DEF PromotionStore, PhaseInv, Serving, Promoting
<1>16. CASE Promoted
  BY <1>16, ReplyAdds DEF Promoted, PhaseInv, Phases, Serving, Promoting
<1>17. CASE Revoke
  <2>1. /\ \/ /\ Range(replies') = Range(replies) \cup {"lease_revoked"}
              /\ pc' = "loop"
           \/ Range(replies') = Range(replies) /\ pc' = "stopping"
        /\ limit' = limit
    BY <1>17, ReplyAdds DEF Revoke, Return, Phases
  <2>2. QED
    BY <1>17, <2>1 DEF Revoke, PhaseInv, Serving, Promoting
<1>18. CASE DeferredStop
  <2>1. Range(replies') \in {Range(replies), Range(replies) \cup {"stopped"}}
    BY <1>18, AppendRange DEF DeferredStop, Types, Phases
  <2>2. pc' = "done" /\ limit' = limit
    BY <1>18 DEF DeferredStop
  <2>3. QED
    BY <2>1, <2>2 DEF PhaseInv, Serving, Promoting
<1>19. CASE WatchLock
  BY <1>19 DEF WatchLock, environment, Types, PhaseInv, Serving, Promoting
<1>20. CASE WatchJudge
  BY <1>20 DEF WatchJudge, Overdue, Current, environment, Types, PhaseInv,
     Serving, Promoting
<1>21. CASE WatchEnds
  BY <1>21 DEF WatchEnds, server, environment, Types, PhaseInv, Serving,
     Promoting
<1>22. CASE Signal
  BY <1>22 DEF Signal, server, watcher, environment, Types, PhaseInv,
     Serving, Promoting
<1>23. CASE Tick
  BY <1>23 DEF Tick, server, watcher, Types, PhaseInv, Serving, Promoting
<1>24. CASE ClockFails
  BY <1>24 DEF ClockFails, server, watcher, Types, PhaseInv, Serving,
     Promoting
<1>25. CASE UNCHANGED vars
  BY <1>25 DEF vars, Types, PhaseInv, Phases, Serving, Promoting
<1>26. QED
  BY <1>1, <1>2, <1>3, <1>4, <1>5, <1>6, <1>7, <1>8, <1>9, <1>10, <1>11, <1>12, <1>13,
     <1>14, <1>15, <1>16, <1>17, <1>18, <1>19, <1>20, <1>21, <1>22, <1>23, <1>24, <1>25
     DEF Next, Serve, Watch, Done

\* Every reply comes when it is due.
LEMMA OrderStep ==
  ASSUME Types, CountInv, PhaseInv, ExitInv, Ordered(replies), [Next]_vars
  PROVE  Ordered(replies)'
<1>1. CASE Setup
  <2>1. replies' \in {replies, Append(replies, "prepared")}
    BY <1>1 DEF Setup, Reply, Return
  <2>2. "stopped" \notin Range(replies)
        /\ "prepared" \notin Range(replies)
    BY <1>1 DEF Setup, CountInv, Range
  <2>3. Ordered(Append(replies, "prepared"))
    BY <2>2, OrderedAppend DEF Types, Phases
  <2>4. QED
    BY <2>1, <2>3
<1>2. CASE Announce
  <2>1. replies' \in {replies, Append(replies, "started")}
    BY <1>2 DEF Announce, Reply, Return
  <2>2. "stopped" \notin Range(replies)
        /\ "started" \notin Range(replies) /\ "prepared" \in Range(replies)
    BY <1>2 DEF Announce, PhaseInv, ExitInv
  <2>3. Ordered(Append(replies, "started"))
    BY <2>2, OrderedAppend DEF Types, Phases
  <2>4. QED
    BY <2>1, <2>3
<1>3. CASE Health
  <2>1. replies' \in {replies, Append(replies, "health")}
    BY <1>3 DEF Health, Reply, Return
  <2>2. "stopped" \notin Range(replies)
        /\ "started" \in Range(replies)
    BY <1>3 DEF Health, PhaseInv, ExitInv, Serving
  <2>3. Ordered(Append(replies, "health"))
    BY <2>2, OrderedAppend DEF Types, Phases
  <2>4. QED
    BY <2>1, <2>3
<1>4. CASE Promoted
  <2>1. replies' \in {replies, Append(replies, "promoted")}
    BY <1>4 DEF Promoted, Reply, Return
  <2>2. "stopped" \notin Range(replies)
        /\ "promoted" \notin Range(replies) /\ "started" \in Range(replies)
    BY <1>4 DEF Promoted, PhaseInv, ExitInv, Serving
  <2>3. Ordered(Append(replies, "promoted"))
    BY <2>2, OrderedAppend DEF Types, Phases
  <2>4. QED
    BY <2>1, <2>3
<1>5. CASE Revoke
  <2>1. replies' \in {replies, Append(replies, "lease_revoked")}
    BY <1>5 DEF Revoke, Reply, Return
  <2>2. "stopped" \notin Range(replies)
        /\ "promoted" \in Range(replies)
    BY <1>5 DEF Revoke, PhaseInv, ExitInv
  <2>3. Ordered(Append(replies, "lease_revoked"))
    BY <2>2, OrderedAppend DEF Types, Phases
  <2>4. QED
    BY <2>1, <2>3
<1>6. CASE DeferredStop
  <2>1. replies' \in {replies, Append(replies, "stopped")}
    BY <1>6 DEF DeferredStop
  <2>2. "stopped" \notin Range(replies)
    BY <1>6 DEF DeferredStop, ExitInv
  <2>3. Ordered(Append(replies, "stopped"))
    BY <2>2, OrderedAppend DEF Types, Phases
  <2>4. QED
    BY <2>1, <2>3
<1>7. CASE UNCHANGED replies
  BY <1>7
<1>8. QED
  <2>1. ~(\/ Setup \/ Announce \/ Health \/ Promoted \/ Revoke \/ DeferredStop)
        => UNCHANGED replies
    BY DEF Next, Serve, Watch, Done, vars, server, ReadLine, ReaderEnds,
           FirstCommand, ContextDone, Launch, StartReturns, CheckStarted,
           NextCommand, Confirm, PromotionLock, PromotionCheck,
           PromotionStore, WatchLock, WatchJudge, WatchEnds, Signal, Tick,
           ClockFails
  <2>2. QED
    BY <2>1, <1>1, <1>2, <1>3, <1>4, <1>5, <1>6, <1>7

-----------------------------------------------------------------------------
(* The theorems.                                                           *)

\* In every reachable state the mutex, the replies and the number of commands
\* read agree with where ServeLinuxDaemon is, and with its watcher.
THEOREM InductiveInvariant == Spec => []IndInv
<1>1. Init => IndInv
  <2> SUFFICES ASSUME Init PROVE IndInv
    OBVIOUS
  <2>1. Types
    <3>1. 0 \in 0 .. MaxClock /\ 0 \in 0 .. MaxCommands
      BY BoundsAssumption
    <3>2. deadline \in Deadline /\ replies \in Seq(Phases)
      BY <3>1 DEF Init, Deadline
    <3>3. QED
      BY <3>1, <3>2 DEF Init, Types
  <2>4. CountInv /\ LockInv /\ DeadlineInv /\ PromotionOrExpiry
    BY <2>1, CountFacts DEF Init, CountInv, LockInv, DeadlineInv,
       PromotionOrExpiry, Answering, Serving, Promoting
  <2>2. Range(replies) = {} /\ Ordered(replies)
    BY DEF Init, Range, Ordered, Once, Follows
  <2>3. QED
    BY <2>1, <2>2, <2>4 DEF Init, IndInv, PhaseInv, ExitInv, Serving, Promoting
<1>2. IndInv /\ [Next]_vars => IndInv'
  BY TypesStep, CountStep, LockStep, PhaseStep, ExitStep, DeadlineStep,
     ExpiryStep, OrderStep DEF IndInv
<1>3. QED
  BY <1>1, <1>2, PTL DEF Spec

\* Every variable has its type, and ServeLinuxDaemon writes at most one reply for
\* each line it reads besides prepared and stopped.
THEOREM TypeCorrect == Spec => []TypeOK
<1>1. IndInv => TypeOK
  BY CountFacts, BoundsAssumption
     DEF IndInv, Types, CountInv, TypeOK, Answering, Serving, Promoting
<1>2. QED
  BY <1>1, InductiveInvariant, PTL

\* A promotion and the connect deadline exclude each other through promotionMu,
\* the phases ServeLinuxDaemon writes keep the order of the protocol, and
\* stopped is written last, with the core off.
THEOREM SessionProtocol == Spec => []SessionKeepsProtocol
<1>1. IndInv => SessionKeepsProtocol
  <2> SUFFICES ASSUME IndInv PROVE SessionKeepsProtocol
    OBVIOUS
  <2>1. ReplyOrder
    BY DEF IndInv, ReplyOrder, Ordered, Once, Follows
  <2>2. CleanExit
    BY DEF IndInv, ExitInv, CleanExit
  <2>3. QED
    BY <2>1, <2>2 DEF IndInv, SessionKeepsProtocol
<1>2. QED
  BY <1>1, InductiveInvariant, PTL

\* ServeLinuxDaemon never announces a bound start whose deadline the watcher
\* found over, however Start and the watcher interleave.
THEOREM NoLateStartTheorem == Spec => NoLateStart
<1>1. IndInv /\ [Next]_vars
      => [pc = "check" /\ pc' = "announce" /\ bound => ctx # "deadline"]_vars
  <2> SUFFICES ASSUME IndInv, Next, pc = "check", pc' = "announce", bound
               PROVE  ctx # "deadline"
    OBVIOUS
  <2>1. Current(deadline)
    <3>1. CheckStarted
      BY DEF Next, Serve, Watch, Done, vars, server, ReadLine, ReaderEnds, Setup,
             FirstCommand, ContextDone, Launch, StartReturns, Announce, Return,
             NextCommand, Health, Confirm, PromotionLock, PromotionCheck,
             PromotionStore, Promoted, Revoke, DeferredStop, WatchLock,
             WatchJudge, WatchEnds, Signal, Tick, ClockFails
    <3>2. QED
      BY <3>1 DEF CheckStarted, Return
  <2>2. QED
    BY <2>1 DEF IndInv, Types, DeadlineInv, Deadline, Current
<1>2. QED
  BY <1>1, InductiveInvariant, PTL DEF Spec, NoLateStart

-----------------------------------------------------------------------------
(* The candidate probe (CandidateProbe).                                   *)

Places == {"new", "poll", "build", "start", "probe", "freeze", "join_closer",
           "close", "stop_watcher", "join_watcher", "unregister", "returned",
           "duplicate"}

\* Before the call has frozen its verdict, and after it has joined its closer.
Early == {"new", "poll", "build", "start", "probe", "freeze", "duplicate"}
Late == {"stop_watcher", "join_watcher", "unregister", "returned"}

\* Which of the two goroutines of a call can still run, by where the call is.
GoroutineInv(c) ==
    /\ probePc[c] \in {"new", "poll", "duplicate"} => probeWatcher[c] = "none"
    /\ probePc[c] \in {"unregister", "returned"} => probeWatcher[c] = "done"
    /\ probeWatcher[c] = "stopping" => probePc[c] = "join_watcher"
    /\ probePc[c] \in {"new", "poll", "build", "start", "duplicate"} =>
          closer[c] = "none"
    /\ probePc[c] \in {"close"} \cup Late => closer[c] \in {"none", "done"}

\* The temporary Box runs only between box.New and the deferred close.
InstanceInv(c) ==
    /\ probePc[c] \in {"new", "poll", "build", "duplicate"} => instance[c] = "none"
    /\ probePc[c] \in Late => instance[c] # "running"

\* The first finish of a call freezes its verdict, whichever of the two deferred
\* calls of it that is; a verdict still unset then finds the context dead.
FrozenInv(c) ==
    /\ probePc[c] \in Early => ~frozen[c]
    /\ probePc[c] \in {"join_closer", "close"} => frozen[c]
    /\ probePc[c] = "freeze" => kind[c] # "invalid_request"
    /\ probePc[c] = "stop_watcher" /\ kind[c] = "invalid_request" =>
          probeCtx[c] # "live"
    /\ frozen[c] => kind[c] # "invalid_request"

CallInv == \A c \in Calls : GoroutineInv(c) /\ InstanceInv(c) /\ FrozenInv(c)

ProbeInv ==
    /\ Candidate!TypeOK /\ probePc \in [Calls -> Places]
    /\ CallInv /\ Candidate!RegistryHonest /\ touched = {}

LEMMA ProbeConstants == IdOf \in [Calls -> Ids] /\ NoCall \notin Calls
  BY CandidateConstants DEF Candidate!CandidateProbeAssumption

LEMMA ProbeInit == Candidate!Init => ProbeInv
<1> SUFFICES ASSUME Candidate!Init PROVE ProbeInv
  OBVIOUS
<1> USE ProbeConstants DEF Candidate!Init
<1>1. Candidate!TypeOK /\ probePc \in [Calls -> Places]
  BY DEF Candidate!TypeOK, Places
<1>2. CallInv
  BY DEF CallInv, GoroutineInv, InstanceInv, FrozenInv, Late, Early
<1>3. Candidate!RegistryHonest
  BY DEF Candidate!RegistryHonest, Candidate!Registered
<1>4. QED
  BY <1>1, <1>2, <1>3 DEF ProbeInv

\* The verdicts a step may give are kinds of failure.
LEMMA VerdictTypes ==
  ASSUME Candidate!TypeOK, NEW c \in Calls,
         NEW v \in {"success", "hard", "soft", "invalid_profile", "start_failed",
                    "duplicate_probe"},
         kind' = [kind EXCEPT ![c] = v]
  PROVE  kind' \in [Calls -> {"invalid_request", "duplicate_probe",
                    "invalid_profile", "start_failed", "success", "hard",
                    "soft", "timeout", "cancelled"}]
  BY DEF Candidate!TypeOK

\* Every step keeps the types.
LEMMA ProbeTypes ==
  ASSUME ProbeInv, Candidate!Next
  PROVE  Candidate!TypeOK' /\ probePc' \in [Calls -> Places]
<1> USE ProbeConstants DEF ProbeInv, Places, Candidate!calls, Candidate!GoTo,
        Candidate!Fail, Candidate!Cancelled
<1> DEFINE Typed == Candidate!TypeOK' /\ probePc' \in [Calls -> Places]
<1>1. ASSUME NEW c \in Calls, Candidate!CallStep(c)
      PROVE  Typed
  <2>1. CASE Candidate!Register(c)
    <3>1. CASE registry[IdOf[c]] # NoCall
      <4>1. kind' = [kind EXCEPT ![c] = "duplicate_probe"]
        BY <2>1, <3>1 DEF Candidate!Register
      <4>2. /\ probePc' = [probePc EXCEPT ![c] = "duplicate"]
            /\ UNCHANGED <<registry, frozen, probeCtx, interrupted, probeWatcher,
                           closer, instance, target, touched>>
        BY <2>1, <3>1 DEF Candidate!Register
      <4>3. QED
        BY <4>1, <4>2, VerdictTypes DEF Candidate!TypeOK
    <3>2. CASE registry[IdOf[c]] = NoCall
      <4>1. /\ probePc' = [probePc EXCEPT ![c] = "poll"]
            /\ registry' = [registry EXCEPT ![IdOf[c]] = c]
            /\ UNCHANGED <<kind, frozen, probeCtx, interrupted, probeWatcher,
                           closer, instance, target, touched>>
        BY <2>1, <3>2 DEF Candidate!Register
      <4>2. QED
        BY <4>1 DEF Candidate!TypeOK
    <3>3. QED
      BY <3>1, <3>2
  <2>2. CASE Candidate!FirstPoll(c)
    BY <2>2 DEF Candidate!FirstPoll, Candidate!TypeOK
  <2>3. CASE Candidate!Build(c)
    <3>1. ASSUME NEW v \in {"invalid_profile", "soft"},
                 Candidate!Fail(c, "stop_watcher", v), UNCHANGED instance
          PROVE  Typed
      BY <2>3, <3>1, VerdictTypes DEF Candidate!Build, Candidate!TypeOK
    <3>2. ASSUME UNCHANGED kind, instance' \in [Calls -> {"none", "running", "closed"}],
                 NEW where \in {"stop_watcher", "start"}, Candidate!GoTo(c, where)
          PROVE  Typed
      BY <2>3, <3>2 DEF Candidate!Build, Candidate!TypeOK
    <3>3. \/ UNCHANGED instance
          \/ instance' = [instance EXCEPT ![c] = "running"]
      BY <2>3 DEF Candidate!Build
    <3>4. instance' \in [Calls -> {"none", "running", "closed"}]
      BY <3>3 DEF Candidate!TypeOK
    <3>5. QED
      BY <2>3, <3>1, <3>2, <3>4 DEF Candidate!Build
  <2>4. CASE Candidate!Start(c)
    <3>1. ASSUME NEW v \in {"start_failed", "soft"},
                 Candidate!Fail(c, "freeze", v), UNCHANGED closer
          PROVE  Typed
      BY <2>4, <3>1, VerdictTypes DEF Candidate!Start, Candidate!TypeOK
    <3>2. CASE /\ UNCHANGED kind /\ Candidate!GoTo(c, "probe")
               /\ closer' = [closer EXCEPT ![c] = "waiting"]
      BY <2>4, <3>2 DEF Candidate!Start, Candidate!TypeOK
    <3>3. QED
      BY <2>4, <3>1, <3>2 DEF Candidate!Start
  <2>5. CASE Candidate!Probe(c)
    <3>1. PICK v \in {"success", "hard", "soft", "invalid_profile"} :
             Candidate!Fail(c, "freeze", v)
      BY <2>5 DEF Candidate!Probe
    <3>2. QED
      BY <2>5, <3>1, VerdictTypes DEF Candidate!Probe, Candidate!TypeOK
  <2>6. CASE Candidate!Freeze(c)
    BY <2>6 DEF Candidate!Freeze, Candidate!Finish, Candidate!Verdict, Candidate!TypeOK
  <2>7. CASE Candidate!JoinCloser(c)
    BY <2>7 DEF Candidate!JoinCloser, Candidate!TypeOK
  <2>8. CASE Candidate!CloseInstance(c)
    BY <2>8 DEF Candidate!CloseInstance, Candidate!TypeOK
  <2>9. CASE Candidate!StopWatcher(c)
    BY <2>9 DEF Candidate!StopWatcher, Candidate!Finish, Candidate!Verdict, Candidate!TypeOK
  <2>10. CASE Candidate!JoinWatcher(c)
    BY <2>10 DEF Candidate!JoinWatcher, Candidate!TypeOK
  <2>11. CASE Candidate!Unregister(c)
    BY <2>11 DEF Candidate!Unregister, Candidate!TypeOK
  <2>12. QED
    BY <1>1, <2>1, <2>2, <2>3, <2>4, <2>5, <2>6, <2>7, <2>8, <2>9, <2>10, <2>11
    DEF Candidate!CallStep
<1>2. ASSUME NEW c \in Calls, Candidate!WatcherPolls(c) \/ Candidate!WatcherEnds(c)
      PROVE  Typed
  <2>a. \/ probeWatcher' = probeWatcher
        \/ probeWatcher' = [probeWatcher EXCEPT ![c] = "done"]
    BY <1>2 DEF Candidate!WatcherPolls, Candidate!WatcherEnds
  <2>b. probeCtx' = probeCtx \/ probeCtx' = Candidate!Cancelled(c)
    BY <1>2 DEF Candidate!WatcherPolls, Candidate!WatcherEnds
  <2>1. probeWatcher' \in [Calls -> {"none", "polling", "stopping", "done"}]
    BY <2>a DEF Candidate!TypeOK
  <2>2. touched' \subseteq Calls
    BY <1>2 DEF Candidate!WatcherPolls, Candidate!WatcherEnds, Candidate!TypeOK
  <2>3. probeCtx' \in [Calls -> {"live", "cancelled", "deadline"}]
    <3>1. CASE probeCtx' = Candidate!Cancelled(c)
      BY <3>1 DEF Candidate!TypeOK
    <3>2. QED
      BY <2>b, <3>1 DEF Candidate!TypeOK
  <2>4. QED
    BY <1>2, <2>1, <2>2, <2>3 DEF Candidate!WatcherPolls, Candidate!WatcherEnds,
       Candidate!TypeOK
<1>3. ASSUME NEW c \in Calls,
             \/ Candidate!CloserWakes(c) \/ Candidate!CloserCloses(c)
             \/ Candidate!CloserStops(c)
      PROVE  Typed
  <2>1. CASE Candidate!CloserWakes(c)
    BY <2>1 DEF Candidate!CloserWakes, Candidate!TypeOK
  <2>2. CASE Candidate!CloserCloses(c)
    BY <2>2 DEF Candidate!CloserCloses, Candidate!TypeOK
  <2>3. CASE Candidate!CloserStops(c)
    BY <2>3 DEF Candidate!CloserStops, Candidate!TypeOK
  <2>4. QED
    BY <1>3, <2>1, <2>2, <2>3
<1>4. ASSUME NEW c \in Calls, Candidate!Interrupt(c) \/ Candidate!Timeout(c)
      PROVE  Typed
  <2>1. CASE Candidate!Interrupt(c)
    BY <2>1 DEF Candidate!Interrupt, Candidate!TypeOK
  <2>2. CASE Candidate!Timeout(c)
    BY <2>2 DEF Candidate!Timeout, Candidate!TypeOK
  <2>3. QED
    BY <1>4, <2>1, <2>2
<1>5. ASSUME NEW k \in Cancels, Candidate!Cancel(k)
      PROVE  Typed
  <2>1. target[k] \in Calls
    BY <1>5 DEF Candidate!Cancel, Candidate!TypeOK
  <2>2. QED
    BY <1>5, <2>1 DEF Candidate!Cancel, Candidate!TypeOK
<1>6. ASSUME NEW k \in Cancels, NEW id \in Ids, Candidate!LookUp(k, id)
      PROVE  Typed
  BY <1>6 DEF Candidate!LookUp, Candidate!TypeOK
<1>7. QED
  BY <1>1, <1>2, <1>3, <1>4, <1>5, <1>6 DEF Candidate!Next

\* A step of a call leaves the others as they are.
LEMMA CallIsAlone ==
  ASSUME ProbeInv, NEW c \in Calls, Candidate!CallStep(c), NEW d \in Calls, d # c
  PROVE  /\ probePc'[d] = probePc[d] /\ kind'[d] = kind[d] /\ frozen'[d] = frozen[d]
         /\ probeWatcher'[d] = probeWatcher[d] /\ closer'[d] = closer[d]
         /\ instance'[d] = instance[d] /\ probeCtx'[d] = probeCtx[d]
<1> USE DEF ProbeInv, Candidate!TypeOK, Candidate!GoTo, Candidate!Fail,
        Candidate!Cancelled, Candidate!Finish
<1>1. CASE Candidate!Register(c)
  BY <1>1 DEF Candidate!Register
<1>2. CASE Candidate!FirstPoll(c)
  BY <1>2 DEF Candidate!FirstPoll
<1>3. CASE Candidate!Build(c)
  BY <1>3 DEF Candidate!Build
<1>4. CASE Candidate!Start(c)
  BY <1>4 DEF Candidate!Start
<1>5. CASE Candidate!Probe(c)
  BY <1>5 DEF Candidate!Probe
<1>6. CASE Candidate!Freeze(c)
  BY <1>6 DEF Candidate!Freeze
<1>7. CASE Candidate!JoinCloser(c)
  BY <1>7 DEF Candidate!JoinCloser
<1>8. CASE Candidate!CloseInstance(c)
  BY <1>8 DEF Candidate!CloseInstance
<1>9. CASE Candidate!StopWatcher(c)
  BY <1>9 DEF Candidate!StopWatcher
<1>10. CASE Candidate!JoinWatcher(c)
  BY <1>10 DEF Candidate!JoinWatcher
<1>11. CASE Candidate!Unregister(c)
  BY <1>11 DEF Candidate!Unregister
<1>12. QED
  BY <1>1, <1>2, <1>3, <1>4, <1>5, <1>6, <1>7, <1>8, <1>9, <1>10, <1>11
     DEF Candidate!CallStep

\* The registry is changed by the call that registers or unregisters only.
LEMMA RegistryStep ==
  ASSUME ProbeInv, Candidate!Next
  PROVE  Candidate!RegistryHonest'
<1>0. /\ Candidate!TypeOK /\ probePc \in [Calls -> Places]
      /\ Candidate!RegistryHonest
  BY DEF ProbeInv
<1>1. ASSUME NEW c \in Calls, Candidate!Register(c)
      PROVE  Candidate!RegistryHonest'
  BY <1>0, <1>1, ProbeConstants DEF Candidate!TypeOK, Candidate!RegistryHonest,
     Candidate!Registered, Candidate!GoTo, Candidate!Fail, Candidate!Register
<1>2. ASSUME NEW c \in Calls, Candidate!Unregister(c)
      PROVE  Candidate!RegistryHonest'
  <2>1. registry[IdOf[c]] = c
    BY <1>0, <1>2, ProbeConstants DEF Candidate!RegistryHonest,
       Candidate!Registered, Candidate!Unregister
  <2>2. QED
    BY <1>0, <1>2, <2>1, ProbeConstants DEF Candidate!TypeOK,
       Candidate!RegistryHonest, Candidate!Registered, Candidate!GoTo,
       Candidate!Unregister
<1>3. ASSUME NEW c \in Calls,
             \/ Candidate!FirstPoll(c) \/ Candidate!Build(c) \/ Candidate!Start(c)
             \/ Candidate!Probe(c) \/ Candidate!Freeze(c) \/ Candidate!JoinCloser(c)
             \/ Candidate!CloseInstance(c) \/ Candidate!StopWatcher(c)
             \/ Candidate!JoinWatcher(c)
      PROVE  Candidate!RegistryHonest'
  <2>1. /\ registry' = registry
        /\ probePc[c] \notin {"new", "returned", "duplicate"}
        /\ probePc'[c] \notin {"new", "returned", "duplicate"}
    BY <1>0, <1>3 DEF Candidate!GoTo, Candidate!Fail, Candidate!FirstPoll,
       Candidate!Build, Candidate!Start, Candidate!Probe, Candidate!Freeze,
       Candidate!JoinCloser, Candidate!CloseInstance, Candidate!StopWatcher,
       Candidate!JoinWatcher
  <2>2. \A d \in Calls : d # c => probePc'[d] = probePc[d]
    BY <1>3, CallIsAlone DEF Candidate!CallStep
  <2>3. \A d \in Calls : Candidate!Registered(d) <=> Candidate!Registered(d)'
    BY <2>1, <2>2 DEF Candidate!Registered
  <2>4. QED
    BY <1>0, <2>1, <2>3 DEF Candidate!RegistryHonest
<1>4. ASSUME UNCHANGED <<registry, probePc>>
      PROVE  Candidate!RegistryHonest'
  BY <1>0, <1>4 DEF Candidate!RegistryHonest, Candidate!Registered
<1>5. QED
  BY <1>1, <1>2, <1>3, <1>4 DEF Candidate!Next, Candidate!CallStep, Candidate!calls,
     Candidate!WatcherPolls, Candidate!WatcherEnds, Candidate!CloserWakes,
     Candidate!CloserCloses, Candidate!CloserStops, Candidate!Interrupt,
     Candidate!Timeout, Candidate!Cancel, Candidate!LookUp

\* A step of a call keeps what is known of its goroutines, its instance and its
\* verdict.
LEMMA CallKeeps ==
  ASSUME ProbeInv, NEW c \in Calls, Candidate!CallStep(c)
  PROVE  CallInv' /\ touched' = {}
<1> DEFINE Kept == (GoroutineInv(c) /\ InstanceInv(c) /\ FrozenInv(c))' /\ touched' = {}
<1>0. GoroutineInv(c) /\ InstanceInv(c) /\ FrozenInv(c)
  BY DEF ProbeInv, CallInv
<1>a. Kept
  <2> USE <1>0 DEF ProbeInv, Candidate!TypeOK, Candidate!GoTo, Candidate!Fail,
          Candidate!Cancelled, GoroutineInv, InstanceInv, FrozenInv, Early, Late
  <2>1. CASE Candidate!Register(c)
    <3>1. probePc'[c] \in {"poll", "duplicate"}
      BY <2>1 DEF Candidate!Register
    <3>2. QED
      BY <2>1, <3>1 DEF Candidate!Register
  <2>2. CASE Candidate!FirstPoll(c)
    BY <2>2 DEF Candidate!FirstPoll
  <2>3. CASE Candidate!Build(c)
    <3>1. CASE /\ probePc'[c] = "stop_watcher" /\ instance' = instance
               /\ kind'[c] = "invalid_request" => probeCtx[c] # "live"
      BY <2>3, <3>1 DEF Candidate!Build
    <3>2. CASE probePc'[c] = "start" /\ kind' = kind /\ instance'[c] = "running"
      BY <2>3, <3>2 DEF Candidate!Build
    <3>3. QED
      BY <2>3, <3>1, <3>2 DEF Candidate!Build
  <2>4. CASE Candidate!Start(c)
    <3>1. CASE probePc'[c] = "freeze" /\ kind'[c] # "invalid_request" /\ closer' = closer
      BY <2>4, <3>1 DEF Candidate!Start
    <3>2. CASE probePc'[c] = "probe" /\ kind' = kind
      BY <2>4, <3>2 DEF Candidate!Start
    <3>3. QED
      BY <2>4, <3>1, <3>2 DEF Candidate!Start
  <2>5. CASE Candidate!Probe(c)
    <3>1. probePc'[c] = "freeze" /\ kind'[c] # "invalid_request"
      BY <2>5 DEF Candidate!Probe
    <3>2. QED
      BY <2>5, <3>1 DEF Candidate!Probe
  <2>6. CASE Candidate!Freeze(c)
    BY <2>6 DEF Candidate!Freeze, Candidate!Finish, Candidate!Verdict
  <2>7. CASE Candidate!JoinCloser(c)
    BY <2>7 DEF Candidate!JoinCloser
  <2>8. CASE Candidate!CloseInstance(c)
    BY <2>8 DEF Candidate!CloseInstance
  <2>9. CASE Candidate!StopWatcher(c)
    BY <2>9 DEF Candidate!StopWatcher, Candidate!Finish, Candidate!Verdict
  <2>10. CASE Candidate!JoinWatcher(c)
    BY <2>10 DEF Candidate!JoinWatcher
  <2>11. CASE Candidate!Unregister(c)
    BY <2>11 DEF Candidate!Unregister
  <2>12. QED
    BY <2>1, <2>2, <2>3, <2>4, <2>5, <2>6, <2>7, <2>8, <2>9, <2>10, <2>11
    DEF Candidate!CallStep
<1>b. ASSUME NEW d \in Calls, d # c
      PROVE  (GoroutineInv(d) /\ InstanceInv(d) /\ FrozenInv(d))'
  BY <1>b, CallIsAlone DEF ProbeInv, CallInv, GoroutineInv, InstanceInv, FrozenInv
<1>c. QED
  BY <1>a, <1>b DEF CallInv

\* So do the goroutines, the clock, the host and the cancellations.
LEMMA OthersKeep ==
  ASSUME ProbeInv,
         \/ \E c \in Calls :
               \/ Candidate!WatcherPolls(c) \/ Candidate!WatcherEnds(c)
               \/ Candidate!CloserWakes(c) \/ Candidate!CloserCloses(c)
               \/ Candidate!CloserStops(c) \/ Candidate!Interrupt(c)
               \/ Candidate!Timeout(c)
         \/ \E k \in Cancels :
               Candidate!Cancel(k) \/ \E id \in Ids : Candidate!LookUp(k, id)
  PROVE  CallInv' /\ touched' = {}
<1> DEFINE Dies == \A d \in Calls : probeCtx[d] # "live" => probeCtx'[d] # "live"
<1> USE DEF ProbeInv, Candidate!TypeOK, Candidate!calls, Candidate!Cancelled,
        CallInv, GoroutineInv, InstanceInv, FrozenInv
<1>1. ASSUME NEW c \in Calls, Candidate!WatcherPolls(c) \/ Candidate!WatcherEnds(c)
      PROVE  CallInv' /\ touched' = {}
  <2>1. /\ probePc[c] \notin {"new", "poll", "duplicate", "unregister", "returned"}
        /\ Dies
    BY <1>1 DEF Candidate!WatcherPolls, Candidate!WatcherEnds
  <2>2. touched' = {}
    BY <1>1, <2>1 DEF Candidate!WatcherPolls, Candidate!WatcherEnds,
       Candidate!Returned
  <2>3. \A d \in Calls : \/ probeWatcher'[d] = probeWatcher[d]
                         \/ d = c /\ probeWatcher'[d] = "done"
    BY <1>1 DEF Candidate!WatcherPolls, Candidate!WatcherEnds
  <2>4. UNCHANGED <<probePc, kind, frozen, closer, instance>>
    BY <1>1 DEF Candidate!WatcherPolls, Candidate!WatcherEnds
  <2>5. QED
    BY <2>1, <2>2, <2>3, <2>4
<1>2. ASSUME NEW c \in Calls,
             \/ Candidate!CloserWakes(c) \/ Candidate!CloserCloses(c)
             \/ Candidate!CloserStops(c)
      PROVE  CallInv' /\ touched' = {}
  <2>1. probePc[c] \notin {"new", "poll", "build", "start", "duplicate", "close"} \cup Late
    BY <1>2 DEF Candidate!CloserWakes, Candidate!CloserCloses, Candidate!CloserStops,
       Late
  <2>2. \A d \in Calls : \/ closer'[d] = closer[d] /\ instance'[d] = instance[d]
                         \/ d = c
    BY <1>2 DEF Candidate!CloserWakes, Candidate!CloserCloses, Candidate!CloserStops
  <2>3. UNCHANGED <<probePc, kind, frozen, probeCtx, probeWatcher, touched>>
    BY <1>2 DEF Candidate!CloserWakes, Candidate!CloserCloses, Candidate!CloserStops
  <2>4. QED
    BY <2>1, <2>2, <2>3 DEF Late
<1>3. ASSUME Dies,
             UNCHANGED <<probePc, kind, frozen, probeWatcher, closer, instance, touched>>
      PROVE  CallInv' /\ touched' = {}
  BY <1>3
<1>4. ASSUME NEW c \in Calls, Candidate!Interrupt(c) \/ Candidate!Timeout(c)
      PROVE  CallInv' /\ touched' = {}
  <2>1. Dies
    BY <1>4 DEF Candidate!Interrupt, Candidate!Timeout
  <2>2. QED
    BY <1>3, <1>4, <2>1 DEF Candidate!Interrupt, Candidate!Timeout
<1>5. ASSUME NEW k \in Cancels,
             Candidate!Cancel(k) \/ \E id \in Ids : Candidate!LookUp(k, id)
      PROVE  CallInv' /\ touched' = {}
  <2>1. Dies
    BY <1>5 DEF Candidate!Cancel, Candidate!LookUp
  <2>2. QED
    BY <1>3, <1>5, <2>1 DEF Candidate!Cancel, Candidate!LookUp
<1>6. QED
  BY <1>1, <1>2, <1>4, <1>5

LEMMA ProbeStep == ProbeInv /\ [Candidate!Next]_probeVars => ProbeInv'
<1>1. ASSUME ProbeInv, Candidate!Next PROVE ProbeInv'
  <2>1. CallInv' /\ touched' = {}
    BY <1>1, CallKeeps, OthersKeep DEF Candidate!Next
  <2>2. QED
    BY <1>1, <2>1, ProbeTypes, RegistryStep DEF ProbeInv
<1>2. ASSUME ProbeInv, UNCHANGED probeVars PROVE ProbeInv'
  <2>1. Candidate!TypeOK' /\ probePc' \in [Calls -> Places] /\ touched' = {}
    BY <1>2 DEF ProbeInv, probeVars, Candidate!TypeOK
  <2>2. CallInv'
    BY <1>2 DEF ProbeInv, probeVars, CallInv, GoroutineInv, InstanceInv, FrozenInv
  <2>3. Candidate!RegistryHonest'
    BY <1>2 DEF ProbeInv, probeVars, Candidate!RegistryHonest, Candidate!Registered
  <2>4. QED
    BY <2>1, <2>2, <2>3 DEF ProbeInv
<1>3. QED
  BY <1>1, <1>2

\* The invariant of the probe holds whichever part of the run moves.
THEOREM ProbeInvariance == HostSpec => []ProbeInv
<1>1. HostInit => ProbeInv
  BY ProbeInit DEF HostInit
<1>2. ProbeInv /\ [HostNext]_<<part, vars, probeVars>> => ProbeInv'
  <2>1. [HostNext]_<<part, vars, probeVars>> => [Candidate!Next]_probeVars
    BY DEF HostNext
  <2>2. QED
    BY <2>1, ProbeStep
<1>3. QED
  BY <1>1, <1>2, PTL DEF HostSpec

\* Every variable of the Linux daemon and of the candidate probe has its type.
THEOREM HostTypes == HostSpec => []TypesOK
<1>1. HostSpec => Spec
  <2>1. HostInit => Init
    BY DEF HostInit
  <2>2. [HostNext]_<<part, vars, probeVars>> => [Next]_vars
    BY DEF HostNext
  <2>3. QED
    BY <2>1, <2>2, PTL DEF HostSpec, Spec
<1>2. ProbeInv => Candidate!TypeOK
  BY DEF ProbeInv
<1>3. QED
  BY <1>1, <1>2, TypeCorrect, ProbeInvariance, PTL DEF TypesOK

\* ProbeCandidate joins its watcher and its closer and closes its Box before it
\* returns, unregisters no call but itself, and decides its verdict once,
\* whenever the deadline, the interruption and cancellations arrive.
THEOREM VerdictsAreLast == HostSpec => VerdictIsLast
<1> DEFINE Final ==
      \A c \in Calls :
         /\ frozen[c] => kind'[c] = kind[c]
         /\ frozen'[c] => kind'[c] # "invalid_request"
<1>1. ProbeInv => Candidate!NothingOutlivesCall /\ Candidate!RegistryHonest
  BY DEF ProbeInv, CallInv, GoroutineInv, InstanceInv, Late, Candidate!TypeOK,
     Candidate!NothingOutlivesCall, Candidate!Returned
<1>2. ProbeInv /\ ProbeInv' /\ [Candidate!Next]_probeVars => Final
  <2> SUFFICES ASSUME ProbeInv, ProbeInv', [Candidate!Next]_probeVars,
                      NEW c \in Calls
               PROVE  /\ frozen[c] => kind'[c] = kind[c]
                      /\ frozen'[c] => kind'[c] # "invalid_request"
    OBVIOUS
  <2>1. frozen'[c] => kind'[c] # "invalid_request"
    BY DEF ProbeInv, CallInv, FrozenInv
  <2>2. ASSUME NEW d \in Calls, Candidate!CallStep(d), frozen[c]
        PROVE  kind'[c] = kind[c]
    <3>1. CASE d # c
      BY <2>2, <3>1, CallIsAlone
    <3>2. CASE d = c
      <4>1. probePc[c] \notin Early
        BY <2>2 DEF ProbeInv, CallInv, FrozenInv
      <4>2. \/ kind' = kind
            \/ kind' = [kind EXCEPT ![c] = Candidate!Verdict(c)]
        BY <2>2, <3>2, <4>1 DEF Early, Candidate!CallStep, Candidate!Register,
           Candidate!FirstPoll, Candidate!Build, Candidate!Start, Candidate!Probe,
           Candidate!Freeze, Candidate!JoinCloser, Candidate!CloseInstance,
           Candidate!StopWatcher, Candidate!JoinWatcher, Candidate!Unregister,
           Candidate!Finish
      <4>3. QED
        BY <2>2, <4>2 DEF ProbeInv, Candidate!TypeOK, Candidate!Verdict
    <3>3. QED
      BY <3>1, <3>2
  <2>3. (\A d \in Calls : ~Candidate!CallStep(d)) => kind' = kind
    BY DEF Candidate!Next, probeVars, Candidate!calls, Candidate!WatcherPolls,
       Candidate!WatcherEnds, Candidate!CloserWakes, Candidate!CloserCloses,
       Candidate!CloserStops, Candidate!Interrupt, Candidate!Timeout,
       Candidate!Cancel, Candidate!LookUp
  <2>4. QED
    BY <2>1, <2>2, <2>3
<1>3. ProbeInv /\ ProbeInv' /\ [HostNext]_<<part, vars, probeVars>>
      => [Final]_(Candidate!vars)
  BY <1>2 DEF HostNext
<1>4. QED
  BY <1>1, <1>3, ProbeInvariance, PTL
  DEF HostSpec, VerdictIsLast, Candidate!VerdictIsFinal

\* CancelCandidateProbe cancels the call it looked up, even when that one has
\* returned and its identifier belongs to another call by now.
THEOREM CancelsFindTheirCall == HostSpec => CancelFindsItsCall
<1> DEFINE Aimed ==
      \A c \in Calls : probeCtx[c] = "live" /\ probeCtx'[c] = "cancelled" =>
         \/ c \in interrupted \/ probePc[c] = "unregister"
         \/ \E k \in Cancels : target[k] = c
<1>1. ProbeInv /\ [Candidate!Next]_probeVars => Aimed
  <2> SUFFICES ASSUME ProbeInv, Candidate!Next PROVE Aimed
    BY DEF probeVars
  <2> USE DEF ProbeInv, Candidate!TypeOK, Candidate!Cancelled, Candidate!calls
  <2>1. ASSUME NEW c \in Calls, Candidate!FirstPoll(c) \/ Candidate!WatcherPolls(c)
        PROVE  Aimed
    BY <2>1 DEF Candidate!FirstPoll, Candidate!WatcherPolls
  <2>2. ASSUME NEW c \in Calls, Candidate!Unregister(c) \/ Candidate!Timeout(c)
        PROVE  Aimed
    BY <2>2 DEF Candidate!Unregister, Candidate!Timeout
  <2>3. ASSUME NEW k \in Cancels, Candidate!Cancel(k) PROVE Aimed
    BY <2>3 DEF Candidate!Cancel
  <2>4. CASE UNCHANGED probeCtx
    BY <2>4
  <2>5. QED
    BY <2>1, <2>2, <2>3, <2>4 DEF Candidate!Next, Candidate!CallStep,
       Candidate!Register, Candidate!Build, Candidate!Start, Candidate!Probe,
       Candidate!Freeze, Candidate!JoinCloser, Candidate!CloseInstance,
       Candidate!StopWatcher, Candidate!JoinWatcher, Candidate!WatcherEnds,
       Candidate!CloserWakes, Candidate!CloserCloses, Candidate!CloserStops,
       Candidate!Interrupt, Candidate!LookUp
<1>2. ProbeInv /\ [HostNext]_<<part, vars, probeVars>> => [Aimed]_(Candidate!vars)
  BY <1>1 DEF HostNext
<1>3. QED
  BY <1>2, ProbeInvariance, PTL
  DEF HostSpec, CancelFindsItsCall, Candidate!CancelFindsItsCall
=============================================================================
