------------------------- MODULE RestrictionJournal -------------------------
(***************************************************************************)
(* The restriction journal of Smart Access (daemon/                        *)
(* smart_access_restriction_store.go) with the three parties that use it:  *)
(* the runtime control workers of StartedService, which apply signed       *)
(* restrictions to the running engine and then write them down; the lease  *)
(* renewals, which write a larger recovery bound down before they adopt    *)
(* it; and the client, which reads a snapshot, keeps it durably and        *)
(* acknowledges it by its hash.  The process may crash between any two     *)
(* steps and every write of the file may fail.                             *)
(*                                                                         *)
(* A record's policy_action, catalog_withdrawn and scope_actions are one   *)
(* function from targets to levels: 0 none, 1 drain, 2 terminate, and for  *)
(* the whole policy 3, terminate with the catalog withdrawn.  The levels   *)
(* of a target are totally ordered and every update takes the larger one.  *)
(* The instants of expires_at are small numbers, 0 for the empty string.   *)
(*                                                                         *)
(* Abstracted: refusals that change nothing (malformed or expired input,   *)
(* an unreadable file, a failed first write, a full lease inventory) are   *)
(* steps not taken; the retained lease identities; the renewal enrollment, *)
(* every scope counting as enrolled, which only allows more renewals; the  *)
(* loading of the file, done here at once when the process starts.         *)
(***************************************************************************)
EXTENDS Naturals, FiniteSets

CONSTANTS
  Profiles,     \* profile digests
  Generations,  \* random worker generations, one per begin
  Scopes,       \* runtime scope digests, one outbound each
  Policy,       \* the target of a whole-profile restriction
  Nobody,       \* no generation, no profile
  MaxRecords,   \* records of a document; 3 in the code
  MaxScopes,    \* scope actions of a record; 256 in the code
  Decisions,    \* the restrictions the backend signs: <<target, level>>
  MaxExpiry     \* bound of the model: the largest instant

Targets == Scopes \cup {Policy}
Levels == 0 .. 3
Expiries == 0 .. MaxExpiry

ASSUME JournalAssumption ==
  /\ Policy \notin Scopes
  /\ Nobody \notin Generations \cup Profiles
  /\ Decisions \subseteq (Scopes \X {1, 2}) \cup ({Policy} \X {1, 2, 3})
  /\ MaxRecords \in Nat /\ MaxScopes \in Nat /\ MaxExpiry \in Nat

VARIABLES
  disk,       \* the journal file: profile -> record
  document,   \* journal.document, the records in memory
  live,       \* journal.live: profile -> generation of its worker
  unsettled,  \* journal.unsettled: profiles whose scope map was full
  profile,    \* the profile s.instance runs, or Nobody
  bound,      \* instance.smartAccessRestrictionExpires
  control,    \* generation of instance.smartAccessControl, or Nobody
  revoked,    \* scopes whose outbound is latched revoked
  authority,  \* the latest active-flow bound any lease of the instance has
  signed,     \* scopes the instance renewed by a signed renewal
  pc,         \* worker: "new", "poll", "journal", "done"
  of,         \* worker -> its profile
  order,      \* the decision being written down by the worker in "journal"
  applied,    \* history: levels a worker applied to the running engine
  snapshot,   \* what the client read last and may acknowledge
  ledger,     \* client: levels it retains durably, per profile
  uncertain   \* client: generations it retains as uncertain

journal == <<disk, document, live, unsettled>>
instance == <<profile, bound, control, revoked, authority, signed>>
workers == <<pc, of, order, applied>>
client == <<snapshot, ledger, uncertain>>
vars == <<journal, instance, workers, client>>

Larger(a, b) == IF a < b THEN b ELSE a

NoActions == [t \in Targets |-> 0]
NoRecord == [generation |-> Nobody, pending |-> FALSE, actions |-> NoActions, expires |-> 0]
Records == [generation : Generations \cup {Nobody}, pending : BOOLEAN,
            actions : [Targets -> Levels], expires : Expiries]
NoOrder == [target |-> Policy, level |-> 0]

\* The edits of one record.
Begun(record, g, e) ==
  [record EXCEPT !.generation = g, !.pending = TRUE, !.expires = Larger(@, e)]
Tightened(record, t, level) == [record EXCEPT !.actions[t] = Larger(@, level)]
Extended(record, e) == [record EXCEPT !.expires = Larger(@, e)]
Settled(record, unsure) == [record EXCEPT !.pending = unsure]

Present(doc) == {p \in Profiles : doc[p].generation # Nobody}
Restricted(record) == \E t \in Targets : record.actions[t] # 0

\* The exported entries and their live flags: what the snapshot hash covers.
View == [records |-> document,
         live |-> {p \in Present(document) : live[p] = document[p].generation}]

\* No worker holds serviceAccess: revoking the engine and writing the
\* restriction down happen under one hold of the lock.
ServiceFree == \A g \in Generations : pc[g] # "journal"

TypeOK ==
  /\ disk \in [Profiles -> Records] /\ document \in [Profiles -> Records]
  /\ live \in [Profiles -> Generations \cup {Nobody}]
  /\ unsettled \subseteq Profiles
  /\ profile \in Profiles \cup {Nobody}
  /\ bound \in Expiries /\ authority \in Expiries
  /\ control \in Generations \cup {Nobody}
  /\ revoked \subseteq Scopes /\ signed \subseteq Scopes
  /\ pc \in [Generations -> {"new", "poll", "journal", "done"}]
  /\ of \in [Generations -> Profiles \cup {Nobody}]
  /\ order \in [target : Targets, level : Levels]
  /\ applied \in [Generations -> [Targets -> Levels]]
  /\ snapshot \in [records : [Profiles -> Records], live : SUBSET Profiles]
  /\ ledger \in [Profiles -> [Targets -> Levels]]
  /\ uncertain \subseteq Generations

Empty == [p \in Profiles |-> NoRecord]

Init ==
  /\ disk = Empty /\ document = Empty
  /\ live = [p \in Profiles |-> Nobody] /\ unsettled = {}
  /\ profile = Nobody /\ bound = 0 /\ control = Nobody
  /\ revoked = {} /\ authority = 0 /\ signed = {}
  /\ pc = [g \in Generations |-> "new"] /\ of = [g \in Generations |-> Nobody]
  /\ order = NoOrder /\ applied = [g \in Generations |-> NoActions]
  /\ snapshot = [records |-> Empty, live |-> {}]
  /\ ledger = [p \in Profiles |-> NoActions] /\ uncertain = {}

----------------------------------------------------------------------------
(* The instance.  A reload is a stop and a start.                          *)

\* Box accepted profile p, whose windows and leases end by e (0: none).
StartInstance(p, e) ==
  /\ profile = Nobody
  /\ profile' = p /\ bound' = e /\ authority' = e
  /\ control' = Nobody /\ revoked' = {} /\ signed' = {}
  /\ UNCHANGED <<journal, workers, client>>

\* The instance's context is cancelled; its worker ends later, by Finish.
StopInstance ==
  /\ profile # Nobody /\ ServiceFree
  /\ profile' = Nobody /\ bound' = 0 /\ authority' = 0
  /\ control' = Nobody /\ revoked' = {} /\ signed' = {}
  /\ UNCHANGED <<journal, workers, client>>

\* RevokeSmartAccessPolicy and RevokeSmartAccessLease: the host's own
\* restrictions latch outbounds and leave no trace in the journal.
HostRevokes(scopes) ==
  /\ profile # Nobody
  /\ revoked' = revoked \cup scopes
  /\ UNCHANGED <<journal, profile, bound, control, authority, signed, workers, client>>

----------------------------------------------------------------------------
(* The runtime control worker.                                             *)

\* begin: what an earlier worker left must have been handed back, unless that
\* worker still lives and this one takes its record over.
MayBegin(p) ==
  /\ p \notin unsettled
  /\ p \in Present(document) \/ Cardinality(Present(document)) < MaxRecords
  /\ live[p] = Nobody => ~ document[p].pending /\ ~ Restricted(document[p])

\* ConfigureSmartAccessRuntimeControl: the pending record is on disk before
\* the worker starts; a replaced worker is cancelled.
Configure(g) ==
  /\ profile # Nobody /\ bound # 0 /\ ServiceFree
  /\ pc[g] = "new" /\ MayBegin(profile)
  /\ document' = [document EXCEPT ![profile] = Begun(@, g, bound)]
  /\ disk' = document'
  /\ live' = [live EXCEPT ![profile] = g]
  /\ control' = g
  /\ pc' = [pc EXCEPT ![g] = "poll"] /\ of' = [of EXCEPT ![g] = profile]
  /\ UNCHANGED <<unsettled, profile, bound, revoked, authority, signed, order, applied, client>>

\* Scopes whose outbound a restriction of target t revokes.
Reach(t) == IF t = Policy THEN Scopes ELSE {t}

\* A verified decision restricts the running engine before the journal.
Apply(g, t, level) ==
  /\ profile # Nobody /\ control = g /\ pc[g] = "poll" /\ ServiceFree
  /\ revoked' = revoked \cup Reach(t)
  /\ applied' = [applied EXCEPT ![g][t] = Larger(@, level)]
  /\ order' = [target |-> t, level |-> level]
  /\ pc' = [pc EXCEPT ![g] = "journal"]
  /\ UNCHANGED <<journal, profile, bound, control, authority, signed, of, client>>

\* A signed control decision: drain or terminate every lease, or withdraw the
\* catalog.
ApplyControl(g) == \E d \in Decisions : d[1] = Policy /\ Apply(g, d[1], d[2])

\* A signed restriction in place of a renewal: one scope.
ApplyScope(g) == \E d \in Decisions : d[1] \in Scopes /\ Apply(g, d[1], d[2])

ScopesFull(record, t) ==
  /\ t \in Scopes /\ record.actions[t] = 0
  /\ Cardinality({s \in Scopes : record.actions[s] # 0}) >= MaxScopes

\* A write of the document in memory that may fail.
TryWrite == disk' \in {disk, document'}

\* restrict and restrictScope: memory keeps the restriction even when the
\* write fails.  They touch only the record of this generation; that there is
\* one follows from the lock and is part of what RestrictionJournalProofs shows.
Journal(g) ==
  LET p == of[g] IN
  /\ pc[g] = "journal" /\ document[p].generation = g
  /\ \/ /\ ~ ScopesFull(document[p], order.target)
        /\ document' = [document EXCEPT ![p] = Tightened(@, order.target, order.level)]
        /\ TryWrite /\ UNCHANGED unsettled
     \/ /\ ScopesFull(document[p], order.target)
        /\ unsettled' = unsettled \cup {p} /\ UNCHANGED <<document, disk>>
  /\ pc' = [pc EXCEPT ![g] = "poll"] /\ order' = NoOrder
  /\ UNCHANGED <<live, instance, of, applied, client>>

\* Mutant: a replaced worker settles the record it no longer owns.
BugFinish(g) ==
  LET p == of[g] IN
  /\ pc[g] = "poll"
  /\ live' = [live EXCEPT ![p] = IF @ = g THEN Nobody ELSE @]
  /\ document' = [document EXCEPT ![p] = Settled(@, p \in unsettled)]
  /\ TryWrite
  /\ pc' = [pc EXCEPT ![g] = "done"]
  /\ UNCHANGED <<unsettled, instance, of, order, applied, client>>

\* The worker ends, cancelled or expired: finish settles the record unless a
\* replacement owns it.
Finish(g) ==
  LET p == of[g] IN
  /\ pc[g] = "poll"
  /\ \/ /\ live[p] = g
        /\ live' = [live EXCEPT ![p] = Nobody]
        /\ document' = [document EXCEPT ![p] = Settled(@, p \in unsettled)]
        /\ TryWrite
     \/ live[p] # g /\ UNCHANGED <<live, document, disk>>
  /\ pc' = [pc EXCEPT ![g] = "done"]
  /\ UNCHANGED <<unsettled, instance, of, order, applied, client>>

----------------------------------------------------------------------------
(* Renewals.  late: the candidate expired while the journal was written, so *)
(* what was written remains metadata.                                       *)

\* RenewSmartAccessLease: a larger recovery bound is on disk before the lease
\* is adopted; extendExpiry does nothing for a worker that no longer lives.
HostRenew(s, e, late) ==
  /\ profile # Nobody /\ ServiceFree /\ s \notin revoked
  /\ IF e > bound /\ control # Nobody /\ live[profile] = control
                  /\ e > document[profile].expires
       THEN /\ document[profile].generation = control
            /\ document' = [document EXCEPT ![profile] = Extended(@, e)]
            /\ disk' = document'
       ELSE UNCHANGED <<document, disk>>
  /\ bound' = Larger(bound, e)
  /\ authority' = IF late THEN authority ELSE Larger(authority, e)
  /\ UNCHANGED <<live, unsettled, profile, control, revoked, signed, workers, client>>

\* Mutant: only the latch of this instance's outbound is asked.
BugRetainsRenewal(g, s) == live[profile] = g /\ document[profile].generation = g

\* retainRenewal: refused when the record holds a restriction of the profile or
\* of the scope.
RetainsRenewal(g, s) ==
  /\ live[profile] = g
  /\ document[profile].generation = g /\ document[profile].pending
  /\ document[profile].actions[Policy] = 0 /\ document[profile].actions[s] = 0

\* A signed renewal (applySmartAccessRuntimeRenewal).
SignedRenew(g, s, e, late) ==
  /\ profile # Nobody /\ control = g /\ pc[g] = "poll" /\ ServiceFree /\ s \notin revoked
  /\ RetainsRenewal(g, s)
  /\ document' = [document EXCEPT ![profile] = Extended(@, e)]
  /\ disk' = document'
  /\ \/ ~ late /\ authority' = Larger(authority, e) /\ bound' = Larger(bound, e)
               /\ signed' = signed \cup {s}
     \/ late /\ UNCHANGED <<authority, bound, signed>>
  /\ UNCHANGED <<live, unsettled, profile, control, revoked, workers, client>>

----------------------------------------------------------------------------
(* The client.                                                             *)

Retain(kept, record) == [t \in Targets |-> Larger(kept[t], record.actions[t])]

\* ReadSmartAccessRestrictions retries a failed write, then returns the view;
\* the client keeps every restriction and every uncertain generation durably.
ReadRestrictions ==
  /\ disk' = document
  /\ snapshot' = View
  /\ ledger' = [p \in Profiles |-> Retain(ledger[p], document[p])]
  /\ uncertain' = uncertain \cup {document[p].generation : p \in
                     {q \in Present(document) \ View.live : document[q].pending}}
  /\ UNCHANGED <<document, live, unsettled, instance, workers>>

LiveRecords == [p \in Profiles |-> IF p \in View.live THEN document[p] ELSE NoRecord]

\* Mutant: the hash is not compared, a change since the read is dropped too.
BugAcknowledge ==
  /\ document' = LiveRecords
  /\ disk' = document'
  /\ unsettled' = unsettled \ (Present(document) \ View.live)
  /\ UNCHANGED <<live, instance, workers, client>>

\* AcknowledgeSmartAccessRestrictions: the first write retries the document;
\* the second drops the records without a live worker, if the client's
\* snapshot is the current one.
Acknowledge ==
  /\ \/ disk' = document /\ UNCHANGED <<document, unsettled>>
     \/ /\ snapshot = View
        /\ document' = LiveRecords
        /\ disk' = document'
        /\ unsettled' = unsettled \ (Present(document) \ View.live)
  /\ UNCHANGED <<live, instance, workers, client>>

\* The process dies.  Its workers and its memory are gone, the file and the
\* client's durable state stay.
Crash ==
  /\ document' = disk /\ live' = [p \in Profiles |-> Nobody] /\ unsettled' = {}
  /\ profile' = Nobody /\ bound' = 0 /\ authority' = 0
  /\ control' = Nobody /\ revoked' = {} /\ signed' = {}
  /\ pc' = [g \in Generations |-> IF pc[g] = "new" THEN "new" ELSE "done"]
  /\ order' = NoOrder
  /\ UNCHANGED <<disk, of, applied, client>>

Next ==
  \/ \E p \in Profiles, e \in Expiries : StartInstance(p, e)
  \/ StopInstance
  \/ HostRevokes(Scopes)
  \/ \E s \in Scopes : HostRevokes({s})
  \/ \E g \in Generations :
        Configure(g) \/ ApplyControl(g) \/ ApplyScope(g) \/ Journal(g) \/ Finish(g)
  \/ \E s \in Scopes, e \in Expiries, late \in BOOLEAN : HostRenew(s, e, late)
  \/ \E g \in Generations, s \in Scopes, e \in Expiries, late \in BOOLEAN :
        SignedRenew(g, s, e, late)
  \/ ReadRestrictions \/ Acknowledge \/ Crash

Spec == Init /\ [][Next]_vars

----------------------------------------------------------------------------
(* Properties.                                                             *)

\* The client holds the restriction of target t applied by worker g, or knows
\* that g's record may be incomplete.
HandedBack(g, t) == applied[g][t] <= ledger[of[g]][t] \/ g \in uncertain

\* The record tells of that restriction, or of the uncertainty about g.
Recorded(record, g, t) ==
  applied[g][t] <= record.actions[t] \/ (record.pending /\ record.generation = g)

\* Whatever crashes, write failures, replacements, full scope maps and
\* acknowledgements happen, a restriction that was ever applied to the running
\* engine is either known to the client or still told by the file.
NoRestrictionForgotten ==
  \A g \in Generations, t \in Targets :
     applied[g][t] # 0 => HandedBack(g, t) \/ Recorded(disk[of[g]], g, t)

\* While a worker lives the file holds its pending record, so a crash at any
\* moment is seen as uncertain; a replaced worker that ends late does not
\* settle its successor's record.
PendingWhileLive ==
  \A p \in Profiles : live[p] # Nobody =>
     disk[p].generation = live[p] /\ disk[p].pending

\* While a worker lives, no lease of its instance outlasts the expiry on disk:
\* a restriction recovered after a crash is kept as long as any flow it covers.
RecoveryBoundOnDisk ==
  profile # Nobody /\ control # Nobody /\ live[profile] = control
     => authority <= disk[profile].expires

\* A signed renewal never gives authority to a scope that is under a
\* restriction which the client does not know of yet, not even in a later
\* instance whose outbounds carry no latch.
RenewalRespectsRestrictions ==
  [][\A s \in signed' \ signed, g \in Generations :
        of[g] = profile => /\ applied[g][s] = 0 \/ HandedBack(g, s)
                           /\ applied[g][Policy] = 0 \/ HandedBack(g, Policy)]_vars

\* A worker never enrolls over state that was not handed back: when a profile
\* without a live worker gets one, the client holds every restriction its
\* earlier workers applied.
EnrollmentFollowsHandback ==
  [][\A p \in Profiles : live[p] = Nobody /\ live'[p] # Nobody =>
        \A g \in Generations, t \in Targets :
           of[g] = p /\ applied[g][t] # 0 => HandedBack(g, t)]_vars

=============================================================================
