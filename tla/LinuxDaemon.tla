----------------------------- MODULE LinuxDaemon -----------------------------
(***************************************************************************)
(* The Linux child of linuxd: ServeLinuxDaemon                             *)
(* (src/v2/hcore/linux_daemon_linux.go), the goroutine that reads its      *)
(* commands, and the goroutine that owns the connect deadline              *)
(* (src/v2/hcore/linux_connect_deadline_linux.go).                         *)
(*                                                                         *)
(* Three goroutines share a context, an atomic limit and a mutex:          *)
(*   - the serving goroutine prepares a profile, takes the first command,  *)
(*     starts the core and then answers one command at a time; whatever    *)
(*     ends it, its deferred function stops the core and says so;          *)
(*   - the reader checks every line and closes the channel at the first    *)
(*     bad one;                                                            *)
(*   - the watcher of a bound start wakes every 100 ms and cancels the     *)
(*     context when the connect deadline is over, unless the attempt has   *)
(*     been promoted to a lease, and then at the lease's own limit.        *)
(*                                                                         *)
(* A command carries what the guards tell apart: its action, whether the   *)
(* digests it expects are the prepared ones, its connect deadline, whether *)
(* its lease is the one of the profile and how long that lease lasts, and  *)
(* its length.  The core itself (CoreLifecycle) is on, off or between, and *)
(* the writes to linuxd's pipe succeed or fail.                            *)
(***************************************************************************)
EXTENDS Naturals, Sequences, Functions

CONSTANTS
    Commands,        \* the lines linuxd may write
    MaxCommands,     \* bound: lines written in one run
    MaxClock,        \* bound: CLOCK_BOOTTIME, in the ticks the deadlines use
    ClockMayFail,    \* whether CLOCK_BOOTTIME can stop being readable
    ScanLimit        \* scanner.Buffer: lines shorter than this are tokens

Actions == {"start", "start_with_identity", "stop", "health",
            "promote_ats_lease", "revoke_ats_lease", "malformed"}

Deadline == [from: 0 .. MaxClock, until: 0 .. MaxClock]

Command == [action: Actions, match: BOOLEAN, deadline: Deadline,
            lease: BOOLEAN, remaining: Nat \ {0}, bytes: Nat]

ASSUME CommandsAssumption == Commands \subseteq Command

ASSUME BoundsAssumption == /\ MaxCommands \in Nat /\ MaxClock \in Nat
                           /\ ScanLimit \in Nat /\ ClockMayFail \in BOOLEAN

None == [action |-> "none"]
Closed == [action |-> "closed"]

VARIABLES
    clock,       \* CLOCK_BOOTTIME
    clockLost,   \* it cannot be read any more
    ctx,         \* "live", or what cancelled the run's context
    offer,       \* the command the reader offers, None, or Closed
    sent,        \* lines linuxd has written
    pc,          \* where the serving goroutine is
    command,     \* the command it is working on
    bound,       \* boundStart
    deadline,    \* the connect deadline of a bound start
    limit,       \* promotedUntil; 0 until the attempt is promoted
    mutex,       \* holder of promotionMu
    watch,       \* where the deadline watcher is
    seen,        \* the limit the watcher loaded
    core,        \* the engine of this process
    replies,     \* phases written to linuxd
    result       \* what ServeLinuxDaemon returns

vars == <<clock, clockLost, ctx, offer, sent, pc, command, bound,
          deadline, limit, mutex, watch, seen, core, replies, result>>

server == <<command, bound, deadline, limit, mutex, core, replies, result>>
watcher == <<watch, seen>>
environment == <<clock, clockLost, offer, sent>>

Phases == {"prepared", "started", "health", "promoted", "lease_revoked", "stopped"}

(* The types, and one reply per command besides prepared and stopped.      *)
TypeOK ==
    /\ clock \in 0 .. MaxClock /\ clockLost \in BOOLEAN
    /\ ctx \in {"live", "signal", "deadline", "lease", "returned"}
    /\ offer \in Commands \cup {None, Closed} /\ sent \in 0 .. MaxCommands
    /\ pc \in {"setup", "first", "launch", "starting", "check", "announce", "loop",
               "probing", "confirm", "lock", "locked", "storing", "promoted",
               "revoking", "stopping", "done"}
    /\ command \in Command \cup {None} /\ bound \in BOOLEAN /\ deadline \in Deadline
    /\ limit \in Nat /\ seen \in Nat
    /\ mutex \in {"free", "serve", "watch"}
    /\ watch \in {"none", "idle", "held", "gone"}
    /\ core \in {"off", "starting", "on"}
    /\ replies \in Seq(Phases) /\ Len(replies) <= MaxCommands + 2
    /\ result \in {"nil", "error"}

Init ==
    /\ clock = 0 /\ clockLost = FALSE
    /\ ctx = "live"
    /\ offer = None /\ sent = 0
    /\ pc = "setup" /\ command = None
    /\ bound = FALSE /\ deadline = [from |-> 0, until |-> 0]
    /\ limit = 0 /\ mutex = "free"
    /\ watch = "none" /\ seen = 0
    /\ core = "off" /\ replies = <<>> /\ result = "nil"

-----------------------------------------------------------------------------
(* linuxConnectDeadline.current on the clock of this moment; the boot      *)
(* reference of another boot is a deadline that is never current.          *)
Current(d) == ~clockLost /\ d.from <= clock /\ clock < d.until

(* linuxConnectDeadline.valid: the reader's check of the deadline object.  *)
Valid(d) == d.from < d.until

-----------------------------------------------------------------------------
(* readLinuxCommands.                                                      *)

(* A line the reader passes on: short enough for the scanner, well formed, *)
(* and, for a bound start, with a valid deadline object.                   *)
Accepted(c) ==
    /\ c.bytes < ScanLimit
    /\ c.action # "malformed"
    /\ c.action = "start_with_identity" => Valid(c.deadline)

(* One line is scanned, decoded and offered; at a bad line the reader      *)
(* returns and closes the channel.                                         *)
ReadLine ==
    /\ replies # <<>> /\ offer = None /\ sent < MaxCommands
    /\ \E c \in Commands : offer' = IF Accepted(c) THEN c ELSE Closed
    /\ sent' = sent + 1
    /\ UNCHANGED <<clock, clockLost, ctx, pc, server, watcher>>

(* linuxd closes its end, or the cancelled context ends the offer.         *)
ReaderEnds ==
    /\ replies # <<>> /\ offer # Closed
    /\ offer = None \/ ctx # "live"
    /\ offer' = Closed
    /\ UNCHANGED <<clock, clockLost, ctx, sent, pc, server, watcher>>

-----------------------------------------------------------------------------
(* The serving goroutine.                                                  *)

(* return nil or return errLinuxDaemon: the deferred stop comes next.      *)
Return(r) == pc' = "stopping" /\ result' = r

(* The goroutine writes a phase; with a broken pipe it returns the error.  *)
Reply(phase, next) ==
    \/ replies' = Append(replies, phase) /\ pc' = next /\ UNCHANGED result
    \/ Return("error") /\ UNCHANGED replies

(* Prepare, BuildConfig, Setup and the redirection of stderr; until they   *)
(* have all succeeded there is no deferred stop and no reply.              *)
Setup ==
    /\ pc = "setup"
    /\ \/ Reply("prepared", "first")
       \/ pc' = "done" /\ result' = "error" /\ UNCHANGED replies
    /\ UNCHANGED <<ctx, environment, watcher, command, bound, deadline,
                   limit, mutex, core>>

(* The first command is a start.  A bound start names the prepared pair    *)
(* and a current deadline, and spawns the watcher of that deadline.        *)
FirstCommand ==
    /\ pc = "first" /\ offer # None
    /\ offer' = IF offer = Closed THEN Closed ELSE None
    /\ \/ /\ offer.action = "start"
          /\ pc' = "launch"
          /\ UNCHANGED <<bound, deadline, watch, result>>
       \/ /\ offer.action = "start_with_identity"
          /\ bound' = TRUE
          /\ IF offer.match /\ Current(offer.deadline)
             THEN /\ deadline' = offer.deadline /\ watch' = "idle"
                  /\ pc' = "launch" /\ UNCHANGED result
             ELSE Return("error") /\ UNCHANGED <<deadline, watch>>
       \/ /\ offer.action \notin {"start", "start_with_identity"}
          /\ Return("error")
          /\ UNCHANGED <<bound, deadline, watch>>
    /\ UNCHANGED <<clock, clockLost, sent, ctx, seen, command, limit, mutex,
                   core, replies>>

(* The context is done while the goroutine waits for a command.            *)
ContextDone ==
    /\ pc \in {"first", "loop"} /\ ctx # "live"
    /\ Return("nil")
    /\ UNCHANGED <<ctx, environment, watcher, command, bound, deadline,
                   limit, mutex, core, replies>>

(* The last look at the context before hcore.Start.                        *)
Launch ==
    /\ pc = "launch"
    /\ IF ctx = "live"
       THEN pc' = "starting" /\ core' = "starting" /\ UNCHANGED result
       ELSE Return("error") /\ UNCHANGED core
    /\ UNCHANGED <<ctx, environment, watcher, command, bound, deadline,
                   limit, mutex, replies>>

(* Start returns, or the tunnel interface is missing after it.  The core   *)
(* runs on a context that is cancelled together with ctx, by a goroutine   *)
(* of context.AfterFunc: that makes Start fail, at any time or not at all. *)
StartReturns ==
    /\ pc = "starting"
    /\ \/ core' = "on" /\ pc' = "check" /\ UNCHANGED result
       \/ core' \in {"off", "on"} /\ Return("error")
    /\ UNCHANGED <<ctx, environment, watcher, command, bound, deadline,
                   limit, mutex, replies>>

(* The deadline of a bound start is read again after Start.                *)
CheckStarted ==
    /\ pc = "check"
    /\ IF bound /\ ~Current(deadline)
       THEN Return("error")
       ELSE pc' = "announce" /\ UNCHANGED result
    /\ UNCHANGED <<ctx, environment, watcher, command, bound, deadline,
                   limit, mutex, core, replies>>

Announce ==
    /\ pc = "announce"
    /\ Reply("started", "loop")
    /\ UNCHANGED <<ctx, environment, watcher, command, bound, deadline,
                   limit, mutex, core>>

(* The guards of promote_ats_lease before the gate is asked, the lease of  *)
(* the command compared with the one of the parsed profile included.       *)
MayPromote(c) ==
    bound /\ limit = 0 /\ Current(deadline) /\ c.match /\ c.lease /\ ctx = "live"

(* The guards of revoke_ats_lease.                                         *)
MayRevoke(c) == bound /\ limit # 0 /\ c.match /\ ctx = "live"

(* The loop takes a command; the closed channel gives the zero command,    *)
(* which is an unknown action like a second start.  linuxATSLeaseDeadline  *)
(* turns what remains of the lease into a limit on CLOCK_BOOTTIME here,    *)
(* before the gate is asked, so the limit can be over when it is stored.   *)
NextCommand ==
    /\ pc = "loop" /\ offer # None
    /\ offer' = IF offer = Closed THEN Closed ELSE None
    /\ \/ offer.action = "stop" /\ Return("nil") /\ UNCHANGED command
       \/ /\ offer.action = "health"
          /\ pc' = "probing" /\ UNCHANGED <<command, result>>
       \/ /\ offer.action = "promote_ats_lease"
          /\ IF MayPromote(offer)
             THEN /\ command' = [offer EXCEPT !.remaining = clock + @]
                  /\ pc' = "confirm" /\ UNCHANGED result
             ELSE Return("error") /\ UNCHANGED command
       \/ /\ offer.action = "revoke_ats_lease"
          /\ IF MayRevoke(offer)
             THEN command' = offer /\ pc' = "revoking" /\ UNCHANGED result
             ELSE Return("error") /\ UNCHANGED command
       \/ /\ offer.action \in {"start", "start_with_identity", "closed"}
          /\ Return("error") /\ UNCHANGED command
    /\ UNCHANGED <<clock, clockLost, sent, ctx, watcher, bound, deadline,
                   limit, mutex, core, replies>>

BugHealth ==
    /\ pc = "probing"
    /\ Reply("health", "probing")
    /\ UNCHANGED <<ctx, environment, watcher, command, bound, deadline,
                   limit, mutex, core>>

(* probeLinuxHealth takes up to fifteen seconds, then its reply is written. *)
Health ==
    /\ pc = "probing"
    /\ Reply("health", "loop")
    /\ UNCHANGED <<ctx, environment, watcher, command, bound, deadline,
                   limit, mutex, core>>

(* ConfirmATSLease: the gate of the running core confirms the lease and    *)
(* the context is still live, or the command ends the run.                 *)
Confirm ==
    /\ pc = "confirm"
    /\ \/ core = "on" /\ ctx = "live" /\ pc' = "lock" /\ UNCHANGED result
       \/ Return("error")
    /\ UNCHANGED <<ctx, environment, watcher, command, bound, deadline,
                   limit, mutex, core, replies>>

BugPromotionLock ==
    /\ pc = "lock"
    /\ pc' = "locked"
    /\ UNCHANGED <<ctx, environment, watcher, command, bound, deadline,
                   limit, mutex, core, replies, result>>

PromotionLock ==
    /\ pc = "lock" /\ mutex = "free"
    /\ mutex' = "serve" /\ pc' = "locked"
    /\ UNCHANGED <<ctx, environment, watcher, command, bound, deadline,
                   limit, core, replies, result>>

(* Under promotionMu the deadline and the context are read once more.      *)
PromotionCheck ==
    /\ pc = "locked"
    /\ IF Current(deadline) /\ ctx = "live"
       THEN pc' = "storing" /\ UNCHANGED <<mutex, result>>
       ELSE Return("error") /\ mutex' = "free"
    /\ UNCHANGED <<ctx, environment, watcher, command, bound, deadline,
                   limit, core, replies>>

PromotionStore ==
    /\ pc = "storing"
    /\ limit' = command.remaining
    /\ mutex' = "free" /\ pc' = "promoted"
    /\ UNCHANGED <<ctx, environment, watcher, command, bound, deadline,
                   core, replies, result>>

Promoted ==
    /\ pc = "promoted"
    /\ Reply("promoted", "loop")
    /\ command' = None
    /\ UNCHANGED <<ctx, environment, watcher, bound, deadline, limit, mutex,
                   core>>

(* RevokeATSLease on the gate of the running core.                         *)
Revoke ==
    /\ pc = "revoking"
    /\ \/ core = "on" /\ Reply("lease_revoked", "loop")
       \/ Return("error") /\ UNCHANGED replies
    /\ command' = None
    /\ UNCHANGED <<ctx, environment, watcher, bound, deadline, limit, mutex,
                   core>>

(* The deferred functions: Stop, the last reply, and the cancellation of   *)
(* both contexts; a failed Stop or a failed write makes the result an      *)
(* error.                                                                  *)
DeferredStop ==
    /\ pc = "stopping"
    /\ \/ core' = "off" /\ replies' = Append(replies, "stopped") /\ UNCHANGED result
       \/ core' \in {core, "off"} /\ result' = "error" /\ UNCHANGED replies
    /\ pc' = "done"
    /\ ctx' = IF ctx = "live" THEN "returned" ELSE ctx
    /\ UNCHANGED <<environment, watcher, command, bound, deadline, limit, mutex>>

-----------------------------------------------------------------------------
(* The watcher of the connect deadline.                                    *)

(* A tick of the ticker, or the first round: the watcher takes the mutex   *)
(* and loads the limit.                                                    *)
WatchLock ==
    /\ watch = "idle" /\ mutex = "free"
    /\ mutex' = "watch" /\ watch' = "held" /\ seen' = limit
    /\ UNCHANGED <<ctx, environment, pc, command, bound, deadline, limit,
                   core, replies, result>>

BugOverdueLease == seen # 0 /\ (clockLost \/ clock >= seen)

(* What the watcher cancels for: the connect deadline of an attempt that   *)
(* has not been promoted, the lease's limit of one that has.               *)
Overdue ==
    IF seen = 0 THEN ~Current(deadline) ELSE clockLost \/ clock >= seen

WatchJudge ==
    /\ watch = "held"
    /\ IF Overdue
       THEN /\ watch' = "gone"
            /\ ctx' = IF ctx # "live" THEN ctx
                      ELSE IF seen = 0 THEN "deadline" ELSE "lease"
       ELSE watch' = "idle" /\ UNCHANGED ctx
    /\ mutex' = "free"
    /\ UNCHANGED <<environment, pc, command, bound, deadline, limit, seen,
                   core, replies, result>>

WatchEnds ==
    /\ watch = "idle" /\ ctx # "live"
    /\ watch' = "gone"
    /\ UNCHANGED <<ctx, environment, pc, seen, server>>

-----------------------------------------------------------------------------
(* SIGTERM or an interrupt, and main's goroutine that closes stdin on it.  *)
Signal ==
    /\ ctx = "live" /\ pc # "done"
    /\ ctx' = "signal"
    /\ UNCHANGED <<environment, pc, server, watcher>>

Tick ==
    /\ clock < MaxClock
    /\ clock' = clock + 1
    /\ UNCHANGED <<clockLost, offer, sent, ctx, pc, server, watcher>>

ClockFails ==
    /\ ClockMayFail /\ ~clockLost
    /\ clockLost' = TRUE
    /\ UNCHANGED <<clock, offer, sent, ctx, pc, server, watcher>>

Done == pc = "done" /\ UNCHANGED vars

Serve == \/ Setup \/ FirstCommand \/ ContextDone \/ Launch \/ StartReturns
         \/ CheckStarted \/ Announce \/ NextCommand \/ Health \/ Confirm
         \/ PromotionLock \/ PromotionCheck \/ PromotionStore \/ Promoted
         \/ Revoke \/ DeferredStop

Watch == WatchLock \/ WatchJudge \/ WatchEnds

Next == \/ ReadLine \/ ReaderEnds \/ Serve \/ Watch
        \/ Signal \/ Tick \/ ClockFails \/ Done

Spec == Init /\ [][Next]_vars

(* The goroutines run, the clock advances, a Go mutex is not withheld for  *)
(* ever from one that waits for it, and linuxd reads its pipe; no command  *)
(* and no signal has to come.                                              *)
Fairness ==
    /\ WF_vars(Serve) /\ SF_vars(PromotionLock)
    /\ WF_vars(Watch)
    /\ WF_vars(Tick)

FairSpec == Spec /\ Fairness

-----------------------------------------------------------------------------
(* The promotion and the connect deadline exclude each other: promotionMu  *)
(* makes one of them win (linux_daemon_linux.go:193-199 against            *)
(* linux_connect_deadline_linux.go:54-61).  An attempt the deadline        *)
(* cancelled is never promoted, and a promoted one is cancelled by the     *)
(* watcher only at the limit of its lease.                                 *)
PromotionOrExpiry ==
    /\ ctx = "deadline" => limit = 0
    /\ ctx = "lease" => limit # 0 /\ (clock >= limit \/ clockLost)

(* The phases linuxd reads follow the protocol of the handshake: prepared  *)
(* comes first, a health, a promotion or a revocation only of a started    *)
(* core, one promotion per run and no revocation before it, nothing after  *)
(* stopped.                                                                *)
ReplyOrder ==
    LET Follows(b, a) == \A j \in DOMAIN replies :
                            replies[j] = b => \E i \in 1 .. j - 1 : replies[i] = a
        Once(a) == \A i, j \in DOMAIN replies :
                      replies[i] = a /\ replies[j] = a => i = j
    IN  /\ \A p \in {"prepared", "started", "promoted", "stopped"} : Once(p)
        /\ \A p \in {"health", "promoted"} : Follows(p, "started")
        /\ Follows("started", "prepared") /\ Follows("lease_revoked", "promoted")
        /\ \A i \in DOMAIN replies : replies[i] = "stopped" => i = Len(replies)

(* What the process tells linuxd last is true: "stopped" is written only   *)
(* with the core off and the watcher unable to start anything, and a run   *)
(* that returns nil has written it, a failed Stop included                 *)
(* (linux_daemon_linux.go:98-104).                                         *)
CleanExit ==
    /\ "stopped" \in Range(replies) => core = "off"
    /\ pc = "done" /\ result = "nil" => "stopped" \in Range(replies)

(* An attempt is promoted or expires, never both; the replies keep the     *)
(* order of the protocol, and the last one comes from a stopped core.      *)
SessionKeepsProtocol == PromotionOrExpiry /\ ReplyOrder /\ CleanExit

(* A bound start that reaches the loop was inside its interval after Start *)
(* returned, so a start whose deadline passed while the core was starting  *)
(* is never announced: at the announcement the watcher has not cancelled   *)
(* for a deadline that was over before the check.                          *)
NoLateStart ==
    [][pc = "check" /\ pc' = "announce" /\ bound => ctx # "deadline"]_vars

(* An attempt that is not promoted ends at its connect deadline, whatever  *)
(* the serving goroutine is doing when it comes (Start, a health probe or  *)
(* a promotion included).                                                  *)
ExpiryStops ==
    (watch # "none" /\ limit = 0 /\ clock >= deadline.until)
        ~> (limit # 0 \/ pc = "done")

(* A promoted run ends at the limit of its lease without any command.      *)
LeaseLimitStops == (limit # 0 /\ clock >= limit) ~> pc = "done"
=============================================================================
