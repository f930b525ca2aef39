---------------------- MODULE RestrictionJournalProofs ----------------------
(***************************************************************************)
(* What TLAPS proves of RestrictionJournal, for any number of profiles,    *)
(* workers, scopes and records.                                            *)
(***************************************************************************)
EXTENDS RestrictionJournal, TLAPS

\* Memory and file differ only in a restriction or a settlement whose write
\* failed, and then the file is the more cautious of the two.
FileInv ==
  \A p \in Profiles :
    /\ document[p].generation = disk[p].generation
    /\ document[p].expires = disk[p].expires
    /\ document[p].pending => disk[p].pending

\* A live worker runs, and its record is pending in memory and in the file.
LiveInv ==
  \A p \in Profiles : live[p] # Nobody =>
    /\ document[p].generation = live[p] /\ document[p].pending
    /\ of[live[p]] = p /\ pc[live[p]] \in {"poll", "journal"}

\* Workers that never began applied nothing; only the current worker holds
\* the lock to write a restriction down; a current worker that runs is live.
WorkerInv ==
  /\ \A g \in Generations :
       /\ pc[g] = "new" => \A t \in Targets : applied[g][t] = 0
       /\ pc[g] # "new" => of[g] \in Profiles
       /\ pc[g] = "journal" => control = g
  /\ control # Nobody =>
       /\ profile # Nobody /\ pc[control] # "new" /\ of[control] = profile
       /\ pc[control] \in {"poll", "journal"} => live[profile] = control

\* Every restriction a worker applied in this instance is latched in it.
LatchInv ==
  control # Nobody =>
    \A t \in Targets : applied[control][t] # 0 => Reach(t) \subseteq revoked

\* Memory tells of every restriction the client does not hold.
MemoryInv ==
  \A g \in Generations, t \in Targets :
    applied[g][t] # 0 => HandedBack(g, t) \/ Recorded(document[of[g]], g, t)

\* The record of a live worker holds all it applied, but for the decision it
\* is writing down and for a scope map that overflowed.
WrittenInv ==
  \A g \in Generations, t \in Targets :
    pc[g] # "new" /\ live[of[g]] = g /\ of[g] \notin unsettled =>
      \/ applied[g][t] <= document[of[g]].actions[t]
      \/ /\ pc[g] = "journal" /\ order.target = t
         /\ applied[g][t] <= Larger(document[of[g]].actions[t], order.level)

\* What the client may acknowledge is what it holds.
SnapshotInv ==
  \A p \in Profiles :
    /\ \A t \in Targets : snapshot.records[p].actions[t] <= ledger[p][t]
    /\ snapshot.records[p].generation # Nobody /\ snapshot.records[p].pending
         /\ p \notin snapshot.live => snapshot.records[p].generation \in uncertain

\* The recovery bound of the instance covers its leases, and the record of its
\* live worker covers that bound.
BoundInv ==
  profile # Nobody =>
    /\ authority <= bound
    /\ control # Nobody /\ live[profile] = control => bound <= document[profile].expires

IndInv ==
  /\ TypeOK /\ FileInv /\ LiveInv /\ WorkerInv /\ LatchInv /\ MemoryInv
  /\ WrittenInv /\ SnapshotInv /\ BoundInv /\ NoRestrictionForgotten

----------------------------------------------------------------------------
\* Levels and expiries are naturals, closed under Larger.
LEMMA RangeFacts ==
  /\ \A a, b \in Levels : Larger(a, b) \in Levels /\ a <= Larger(a, b) /\ b <= Larger(a, b)
                          /\ (Larger(a, b) = 0 => a = 0)
  /\ \A a, b \in Expiries : Larger(a, b) \in Expiries /\ a <= Larger(a, b) /\ b <= Larger(a, b)
                          /\ (Larger(a, b) <= a \/ Larger(a, b) <= b)
  /\ Levels \subseteq Nat /\ Expiries \subseteq Nat /\ 0 \in Levels /\ 0 \in Expiries
  BY JournalAssumption DEF Larger, Levels, Expiries

\* The fields of a record.
LEMMA RecordFields ==
  ASSUME NEW r \in Records
  PROVE  /\ r.generation \in Generations \cup {Nobody} /\ r.pending \in BOOLEAN
         /\ r.actions \in [Targets -> Levels] /\ r.expires \in Expiries
  BY DEF Records

\* The empty record.
LEMMA NoRecordFacts ==
  /\ NoRecord \in Records /\ NoRecord.generation = Nobody /\ NoRecord.pending = FALSE
  /\ \A t \in Targets : NoRecord.actions[t] = 0
  /\ NoActions \in [Targets -> Levels] /\ \A t \in Targets : NoActions[t] = 0
  BY RangeFacts DEF NoRecord, NoActions, Records

\* begin changes the generation, the pending mark and the expiry.
LEMMA BegunFacts ==
  ASSUME NEW r \in Records, NEW g \in Generations, NEW e \in Expiries
  PROVE  /\ Begun(r, g, e) \in Records
         /\ Begun(r, g, e).generation = g /\ Begun(r, g, e).pending
         /\ Begun(r, g, e).actions = r.actions
         /\ Begun(r, g, e).expires = Larger(r.expires, e)
  <1>1. Larger(r.expires, e) \in Expiries
    BY RangeFacts, RecordFields
  <1>2. QED
    BY <1>1 DEF Begun, Records

\* restrict changes one action, upwards.
LEMMA TightenedFacts ==
  ASSUME NEW r \in Records, NEW t \in Targets, NEW l \in Levels
  PROVE  /\ Tightened(r, t, l) \in Records
         /\ Tightened(r, t, l).generation = r.generation
         /\ Tightened(r, t, l).pending = r.pending
         /\ Tightened(r, t, l).expires = r.expires
         /\ Tightened(r, t, l).actions[t] = Larger(r.actions[t], l)
         /\ \A u \in Targets \ {t} : Tightened(r, t, l).actions[u] = r.actions[u]
  <1>1. r.actions \in [Targets -> Levels] /\ Larger(r.actions[t], l) \in Levels
    BY RangeFacts, RecordFields
  <1>2. Tightened(r, t, l) = [r EXCEPT !.actions = [r.actions EXCEPT ![t] = Larger(r.actions[t], l)]]
    BY DEF Tightened, Records
  <1>3. [r.actions EXCEPT ![t] = Larger(r.actions[t], l)] \in [Targets -> Levels]
    BY <1>1
  <1>4. QED
    BY <1>1, <1>2, <1>3 DEF Records

\* A renewal changes the expiry.
LEMMA ExtendedFacts ==
  ASSUME NEW r \in Records, NEW e \in Expiries
  PROVE  /\ Extended(r, e) \in Records
         /\ Extended(r, e).generation = r.generation
         /\ Extended(r, e).pending = r.pending /\ Extended(r, e).actions = r.actions
         /\ Extended(r, e).expires = Larger(r.expires, e)
  <1>1. Larger(r.expires, e) \in Expiries
    BY RangeFacts, RecordFields
  <1>2. QED
    BY <1>1 DEF Extended, Records

\* finish changes the pending mark.
LEMMA SettledFacts ==
  ASSUME NEW r \in Records, NEW b \in BOOLEAN
  PROVE  /\ Settled(r, b) \in Records
         /\ Settled(r, b).generation = r.generation
         /\ Settled(r, b).pending = b /\ Settled(r, b).actions = r.actions
         /\ Settled(r, b).expires = r.expires
  BY DEF Settled, Records

----------------------------------------------------------------------------
\* Every step preserves the types.
LEMMA NextTypeOK == TypeOK /\ WorkerInv /\ [Next]_vars => TypeOK'
<1> SUFFICES ASSUME TypeOK, WorkerInv, [Next]_vars PROVE TypeOK'
  OBVIOUS
<1> USE DEF TypeOK
<1>1. ASSUME NEW p \in Profiles, NEW e \in Expiries, StartInstance(p, e) PROVE TypeOK'
  BY <1>1 DEF StartInstance, journal, workers, client
<1>2. CASE StopInstance
  BY <1>2, RangeFacts DEF StopInstance, journal, workers, client
<1>3. ASSUME NEW R \in SUBSET Scopes, HostRevokes(R) PROVE TypeOK'
  BY <1>3 DEF HostRevokes, journal, workers, client
<1>4. ASSUME NEW g \in Generations, Configure(g) PROVE TypeOK'
  <2>1. profile \in Profiles
    BY <1>4 DEF Configure
  <2>2. Begun(document[profile], g, bound) \in Records
    BY <2>1, BegunFacts
  <2>3. document' \in [Profiles -> Records] /\ disk' \in [Profiles -> Records]
    BY <1>4, <2>2 DEF Configure
  <2>4. QED
    BY <1>4, <2>1, <2>3 DEF Configure, client
<1>5. ASSUME NEW g \in Generations, ApplyControl(g) \/ ApplyScope(g) PROVE TypeOK'
  <2> PICK d \in Decisions : Apply(g, d[1], d[2])
    BY <1>5 DEF ApplyControl, ApplyScope
  <2>1. d[1] \in Targets /\ d[2] \in Levels /\ Reach(d[1]) \subseteq Scopes
    BY JournalAssumption DEF Reach, Targets, Levels
  <2>2. Larger(applied[g][d[1]], d[2]) \in Levels
    <3>1. applied[g][d[1]] \in Levels
      BY <2>1
    <3>2. QED
      BY <2>1, <3>1, RangeFacts
  <2>3. applied' \in [Generations -> [Targets -> Levels]]
    BY <2>1, <2>2 DEF Apply
  <2>4. QED
    BY <2>1, <2>3 DEF Apply, journal, client
<1>6. ASSUME NEW g \in Generations, Journal(g) PROVE TypeOK'
  <2>1. of[g] \in Profiles
    BY <1>6 DEF Journal, WorkerInv
  <2>2. Tightened(document[of[g]], order.target, order.level) \in Records
    BY <2>1, TightenedFacts
  <2>3. document' \in [Profiles -> Records]
    BY <1>6, <2>2 DEF Journal
  <2>4. disk' \in [Profiles -> Records]
    BY <1>6, <2>3 DEF Journal, TryWrite
  <2>5. NoOrder \in [target : Targets, level : Levels]
    BY RangeFacts DEF NoOrder, Targets
  <2>6. QED
    BY <1>6, <2>1, <2>3, <2>4, <2>5 DEF Journal, instance, client
<1>7. ASSUME NEW g \in Generations, Finish(g) PROVE TypeOK'
  <2>1. of[g] \in Profiles
    BY <1>7 DEF Finish, WorkerInv
  <2>2. Settled(document[of[g]], of[g] \in unsettled) \in Records
    <3>1. (of[g] \in unsettled) \in BOOLEAN /\ document[of[g]] \in Records
      BY <2>1
    <3>2. QED
      BY <3>1, SettledFacts
  <2>3. document' \in [Profiles -> Records]
    BY <1>7, <2>2 DEF Finish
  <2>4. disk' \in [Profiles -> Records]
    BY <1>7, <2>3 DEF Finish, TryWrite
  <2>5. QED
    BY <1>7, <2>3, <2>4 DEF Finish, instance, client
<1>8. ASSUME NEW s \in Scopes, NEW e \in Expiries, NEW late \in BOOLEAN, HostRenew(s, e, late)
      PROVE  TypeOK'
  <2>1. profile \in Profiles
    BY <1>8 DEF HostRenew
  <2>2. Extended(document[profile], e) \in Records
    BY <2>1, ExtendedFacts
  <2>3. document' \in [Profiles -> Records] /\ disk' \in [Profiles -> Records]
    <3>1. document' \in {document, [document EXCEPT ![profile] = Extended(@, e)]}
          /\ disk' \in {disk, document'}
      BY <1>8 DEF HostRenew
    <3>2. QED
      BY <2>1, <2>2, <3>1, SMTT(30)
  <2>4. QED
    BY <1>8, <2>3, RangeFacts DEF HostRenew, workers, client
<1>9. ASSUME NEW g \in Generations, NEW s \in Scopes, NEW e \in Expiries, NEW late \in BOOLEAN,
             SignedRenew(g, s, e, late)
      PROVE  TypeOK'
  <2>1. profile \in Profiles
    BY <1>9 DEF SignedRenew
  <2>2. Extended(document[profile], e) \in Records
    BY <2>1, ExtendedFacts
  <2>3. document' \in [Profiles -> Records] /\ disk' \in [Profiles -> Records]
    BY <1>9, <2>2 DEF SignedRenew
  <2>4. QED
    <3>1. Larger(bound, e) \in Expiries /\ Larger(authority, e) \in Expiries
      BY RangeFacts
    <3>2. bound' \in Expiries /\ authority' \in Expiries /\ signed' \subseteq Scopes
      BY <1>9, <3>1 DEF SignedRenew
    <3>3. QED
      BY <1>9, <2>3, <3>2 DEF SignedRenew, workers, client
<1>10. CASE ReadRestrictions
  <2>1. \A p \in Profiles, t \in Targets : Larger(ledger[p][t], document[p].actions[t]) \in Levels
    <3>1. \A p \in Profiles, t \in Targets :
             ledger[p][t] \in Levels /\ document[p].actions[t] \in Levels
      BY RecordFields
    <3>2. QED
      BY <3>1, RangeFacts
  <2>2. ledger' \in [Profiles -> [Targets -> Levels]]
    BY <1>10, <2>1 DEF ReadRestrictions, Retain
  <2>3. uncertain' \subseteq Generations
    BY <1>10, RecordFields DEF ReadRestrictions, Present
  <2>4. View \in [records : [Profiles -> Records], live : SUBSET Profiles]
    BY DEF View, Present
  <2>5. QED
    BY <1>10, <2>2, <2>3, <2>4 DEF ReadRestrictions, instance, workers
<1>11. CASE Acknowledge
  <2>1. document' \in [Profiles -> Records] /\ disk' \in [Profiles -> Records]
    <3>1. \A p \in Profiles : (IF p \in View.live THEN document[p] ELSE NoRecord) \in Records
      BY NoRecordFacts
    <3>2. LiveRecords \in [Profiles -> Records]
      BY <3>1 DEF LiveRecords
    <3>3. document' \in {document, LiveRecords} /\ disk' = document'
      BY <1>11 DEF Acknowledge
    <3>4. QED
      BY <3>2, <3>3
  <2>2. QED
    BY <1>11, <2>1 DEF Acknowledge, instance, workers, client
<1>12. CASE Crash
  <2>1. NoOrder \in [target : Targets, level : Levels]
    BY RangeFacts DEF NoOrder, Targets
  <2>2. QED
    BY <1>12, <2>1, RangeFacts DEF Crash, client
<1>13. CASE UNCHANGED vars
  BY <1>13 DEF vars, journal, instance, workers, client
<1>14. QED
  <2> HIDE DEF TypeOK
  <2>1. Scopes \in SUBSET Scopes /\ \A s \in Scopes : {s} \in SUBSET Scopes
    OBVIOUS
  <2>2. QED
    BY <1>1, <1>2, <1>3, <1>4, <1>5, <1>6, <1>7, <1>8, <1>9, <1>10, <1>11, <1>12, <1>13, <2>1 DEF Next

----------------------------------------------------------------------------
\* A new process satisfies the inductive invariant.
LEMMA InitIndInv == Init => IndInv
<1> SUFFICES ASSUME Init PROVE IndInv
  OBVIOUS
<1>1. Empty \in [Profiles -> Records] /\ \A p \in Profiles : Empty[p] = NoRecord
  BY NoRecordFacts DEF Empty
<1>2. NoOrder \in [target : Targets, level : Levels]
  BY RangeFacts DEF NoOrder, Targets
<1>3. TypeOK
  BY <1>1, <1>2, NoRecordFacts, RangeFacts DEF Init, TypeOK
<1>4. FileInv /\ LiveInv /\ WorkerInv /\ LatchInv /\ BoundInv
  BY NoRecordFacts DEF Init, FileInv, LiveInv, WorkerInv, LatchInv, BoundInv
<1>5. MemoryInv /\ WrittenInv /\ NoRestrictionForgotten
  BY NoRecordFacts DEF Init, MemoryInv, WrittenInv, NoRestrictionForgotten
<1>6. SnapshotInv
  BY <1>1, NoRecordFacts DEF Init, SnapshotInv
<1>7. QED
  BY <1>3, <1>4, <1>5, <1>6 DEF IndInv

\* Starting, stopping and restricting the instance leave the journal alone.
LEMMA InstanceSteps ==
  ASSUME IndInv, TypeOK', UNCHANGED <<journal, workers, client>>,
         \/ /\ control' = Nobody /\ (profile' # Nobody => authority' <= bound')
            /\ \A g \in Generations : pc[g] # "journal"
         \/ UNCHANGED <<profile, bound, control, authority, signed>> /\ revoked \subseteq revoked'
  PROVE  IndInv'
<1> USE DEF IndInv, journal, workers, client
<1>1. FileInv' /\ LiveInv'
  BY DEF FileInv, LiveInv
<1>2. WorkerInv' /\ BoundInv'
  BY DEF WorkerInv, BoundInv
<1>3. LatchInv'
  BY DEF LatchInv
<1>4. MemoryInv' /\ NoRestrictionForgotten'
  BY DEF MemoryInv, NoRestrictionForgotten, HandedBack, Recorded
<1>5. WrittenInv' /\ SnapshotInv'
  BY DEF WrittenInv, SnapshotInv
<1>6. QED
  BY <1>1, <1>2, <1>3, <1>4, <1>5

\* begin: what the replaced worker left in memory goes to the file with the
\* record of the new one.
LEMMA ConfigureStep ==
  ASSUME IndInv, TypeOK', NEW g \in Generations, Configure(g)
  PROVE  IndInv'
<1> USE DEF IndInv
<1> DEFINE r == document[profile]
<1>1. profile \in Profiles /\ r \in Records /\ bound \in Expiries /\ pc[g] = "new"
  BY DEF Configure, TypeOK
<1>2. /\ document'[profile].generation = g /\ document'[profile].pending
      /\ document'[profile].actions = r.actions
      /\ bound <= document'[profile].expires
      /\ \A p \in Profiles \ {profile} : document'[p] = document[p]
  <2>1. document' = [document EXCEPT ![profile] = Begun(r, g, bound)] /\ document \in [Profiles -> Records]
    BY DEF Configure, TypeOK
  <2>2. bound <= Larger(r.expires, bound)
    BY <1>1, RangeFacts, RecordFields
  <2>3. QED
    BY <1>1, <2>1, <2>2, BegunFacts
<1>3. disk' = document' /\ UNCHANGED <<unsettled, profile, bound, revoked, authority, signed, order, applied, client>>
  BY DEF Configure
<1>4. /\ live' = [live EXCEPT ![profile] = g] /\ live'[profile] = g
      /\ \A p \in Profiles \ {profile} : live'[p] = live[p]
      /\ of'[g] = profile /\ pc'[g] = "poll" /\ control' = g
      /\ \A h \in Generations \ {g} : of'[h] = of[h] /\ pc'[h] = pc[h]
      /\ g # Nobody
  BY <1>1, JournalAssumption DEF Configure, TypeOK
<1>5. FileInv'
  BY <1>3 DEF FileInv
<1>6. LiveInv'
  <2>1. \A p \in Profiles : live[p] # g
    BY <1>1, <1>4 DEF LiveInv
  <2>2. QED
    BY <1>1, <1>2, <1>4, <2>1 DEF LiveInv, TypeOK
<1>7. WorkerInv'
  <2>1. \A h \in Generations : pc[h] # "journal"
    BY DEF Configure, ServiceFree
  <2>2. ASSUME NEW h \in Generations
        PROVE  /\ pc'[h] = "new" => \A t \in Targets : applied'[h][t] = 0
               /\ pc'[h] # "new" => of'[h] \in Profiles
               /\ pc'[h] # "journal"
    BY <1>1, <1>3, <1>4, <2>1 DEF WorkerInv
  <2>3. profile' # Nobody
    BY <1>1, <1>3, JournalAssumption
  <2>4. QED
    BY <1>3, <1>4, <2>2, <2>3 DEF WorkerInv
<1>8. LatchInv'
  BY <1>1, <1>3, <1>4 DEF LatchInv, WorkerInv
<1>9. \A h \in Generations, t \in Targets : applied[h][t] # 0 =>
         /\ h # g /\ pc[h] # "new" /\ of[h] \in Profiles
         /\ HandedBack(h, t) \/ applied[h][t] <= document[of[h]].actions[t]
                             \/ (of[h] # profile /\ Recorded(document[of[h]], h, t))
  <2> SUFFICES ASSUME NEW h \in Generations, NEW t \in Targets, applied[h][t] # 0, ~ HandedBack(h, t)
               PROVE  /\ h # g /\ pc[h] # "new" /\ of[h] \in Profiles
                      /\ \/ applied[h][t] <= document[of[h]].actions[t]
                         \/ of[h] # profile /\ Recorded(document[of[h]], h, t)
    BY <1>1 DEF WorkerInv
  <2>1. h # g /\ pc[h] # "new" /\ of[h] \in Profiles
    BY <1>1 DEF WorkerInv
  <2>2. Recorded(document[of[h]], h, t)
    BY DEF MemoryInv
  <2>3. CASE of[h] = profile /\ document[of[h]].pending /\ document[of[h]].generation = h
    <3>1. live[profile] = h /\ profile \notin unsettled /\ pc[h] # "journal"
      BY <1>1, <2>3, JournalAssumption DEF Configure, MayBegin, LiveInv, ServiceFree
    <3>2. QED
      BY <2>1, <2>3, <3>1 DEF WrittenInv
  <2>4. QED
    BY <2>1, <2>2, <2>3 DEF Recorded
<1>10. MemoryInv' /\ NoRestrictionForgotten'
  <2> SUFFICES ASSUME NEW h \in Generations, NEW t \in Targets, applied[h][t] # 0
               PROVE  HandedBack(h, t)' \/ Recorded(document[of[h]], h, t)'
    BY <1>3 DEF MemoryInv, NoRestrictionForgotten
  <2>1. HandedBack(h, t)' <=> HandedBack(h, t)
    BY <1>3, <1>4, <1>9 DEF HandedBack, client
  <2>2. applied' = applied /\ of'[h] = of[h] /\ of[h] \in Profiles
    BY <1>3, <1>4, <1>9
  <2>3. QED
    BY <1>2, <1>9, <2>1, <2>2 DEF Recorded
<1>11. WrittenInv'
  <2> SUFFICES ASSUME NEW h \in Generations, NEW t \in Targets,
                      pc'[h] # "new", live'[of'[h]] = h, of'[h] \notin unsettled'
               PROVE  \/ applied'[h][t] <= document'[of'[h]].actions[t]
                      \/ /\ pc'[h] = "journal" /\ order'.target = t
                         /\ applied'[h][t] <= Larger(document'[of'[h]].actions[t], order'.level)
    BY DEF WrittenInv
  <2>1. CASE h = g
    <3>1. applied'[h][t] = 0 /\ document'[of'[h]].actions[t] \in Levels
      BY <1>1, <1>2, <1>3, <1>4, <2>1, RecordFields DEF WorkerInv
    <3>2. QED
      BY <3>1 DEF Levels
  <2>2. CASE h # g
    <3>1. of'[h] = of[h] /\ pc'[h] = pc[h] /\ of[h] \in Profiles /\ of[h] # profile
      BY <1>4, <2>2 DEF WorkerInv
    <3>2. QED
      BY <1>2, <1>3, <1>4, <3>1 DEF WrittenInv
  <2>3. QED
    BY <2>1, <2>2
<1>12. SnapshotInv' /\ BoundInv'
  BY <1>2, <1>3, <1>4 DEF SnapshotInv, BoundInv, client
<1>13. QED
  BY <1>5, <1>6, <1>7, <1>8, <1>10, <1>11, <1>12

\* A decision is applied while the worker's pending record is on disk.
LEMMA ApplyStep ==
  ASSUME IndInv, TypeOK', NEW g \in Generations, NEW t \in Targets, NEW level \in Levels,
         Apply(g, t, level)
  PROVE  IndInv'
<1> USE DEF IndInv
<1>1. /\ profile \in Profiles /\ control = g /\ pc[g] = "poll" /\ of[g] = profile /\ live[profile] = g
      /\ g # Nobody
  BY JournalAssumption DEF Apply, WorkerInv, TypeOK
<1>2. UNCHANGED <<journal, profile, bound, control, authority, signed, of, client>>
  BY DEF Apply
<1>3. /\ pc' = [pc EXCEPT ![g] = "journal"] /\ pc'[g] = "journal"
      /\ \A h \in Generations \ {g} : pc'[h] = pc[h] /\ applied'[h] = applied[h]
      /\ \A u \in Targets \ {t} : applied'[g][u] = applied[g][u]
      /\ applied'[g][t] = Larger(applied[g][t], level)
      /\ order'.target = t /\ order'.level = level
      /\ revoked' = revoked \cup Reach(t)
  BY DEF Apply, TypeOK
<1>4. FileInv' /\ SnapshotInv' /\ BoundInv'
  BY <1>2 DEF FileInv, SnapshotInv, BoundInv, journal, client
<1>5. LiveInv'
  BY <1>2, <1>3 DEF LiveInv, journal, TypeOK
<1>6. WorkerInv'
  <2>1. \A h \in Generations \ {g} : pc[h] # "journal"
    BY DEF Apply, ServiceFree
  <2>2. QED
    BY <1>1, <1>2, <1>3, <2>1 DEF WorkerInv, journal
<1>7. LatchInv'
  BY <1>1, <1>2, <1>3 DEF LatchInv
<1>8. MemoryInv' /\ NoRestrictionForgotten'
  <2>1. document[profile].pending /\ document[profile].generation = g
        /\ disk[profile].pending /\ disk[profile].generation = g
    BY <1>1 DEF LiveInv, FileInv
  <2>2. QED
    BY <1>1, <1>2, <1>3, <2>1 DEF MemoryInv, NoRestrictionForgotten, HandedBack, Recorded, journal, client
<1>9. WrittenInv'
  <2>1. ASSUME NEW u \in Targets, profile \notin unsettled
        PROVE  \/ applied'[g][u] <= document[profile].actions[u]
               \/ u = t /\ applied'[g][u] <= Larger(document[profile].actions[u], level)
    <3>1. applied[g][u] <= document[profile].actions[u]
      BY <1>1, <2>1 DEF WrittenInv
    <3>2. applied[g][u] \in Levels /\ document[profile].actions[u] \in Levels
      BY <1>1, RecordFields DEF TypeOK
    <3>3. QED
      BY <1>3, <3>1, <3>2 DEF Larger, Levels
  <2> SUFFICES ASSUME NEW h \in Generations, NEW u \in Targets,
                      pc'[h] # "new", live'[of'[h]] = h, of'[h] \notin unsettled'
               PROVE  \/ applied'[h][u] <= document'[of'[h]].actions[u]
                      \/ /\ pc'[h] = "journal" /\ order'.target = u
                         /\ applied'[h][u] <= Larger(document'[of'[h]].actions[u], order'.level)
    BY DEF WrittenInv
  <2>2. UNCHANGED <<of, live, document, unsettled>>
    BY <1>2 DEF journal
  <2>3. CASE h = g
    BY <1>1, <1>3, <2>1, <2>2, <2>3
  <2>4. CASE h # g
    <3>1. pc'[h] = pc[h] /\ pc[h] # "journal" /\ applied'[h] = applied[h]
      BY <1>3, <2>4 DEF Apply, ServiceFree
    <3>2. QED
      BY <2>2, <3>1 DEF WrittenInv
  <2>5. QED
    BY <2>3, <2>4
<1>10. QED
  BY <1>4, <1>5, <1>6, <1>7, <1>8, <1>9

\* Writing a restriction down keeps it in memory; a write that fails leaves
\* the pending record on disk, a full scope map leaves it pending for good.
LEMMA JournalStep ==
  ASSUME IndInv, TypeOK', NEW g \in Generations, Journal(g)
  PROVE  IndInv'
<1> USE DEF IndInv
<1> DEFINE p == of[g]
           r == document[p]
<1>1. /\ p \in Profiles /\ control = g /\ profile = p /\ live[p] = g /\ g # Nobody
      /\ r \in Records /\ order.target \in Targets /\ order.level \in Levels
      /\ pc[g] = "journal" /\ r.generation = g
  BY JournalAssumption DEF Journal, WorkerInv, TypeOK
<1>2. UNCHANGED <<live, profile, bound, control, revoked, authority, signed, of, applied, snapshot, ledger, uncertain>>
  BY DEF Journal, instance, client
<1>3. pc'[g] = "poll" /\ \A h \in Generations \ {g} : pc'[h] = pc[h] /\ pc[h] # "journal"
  BY <1>1 DEF Journal, TypeOK, WorkerInv
<1>4. /\ \A q \in Profiles \ {p} : document'[q] = document[q]
      /\ document'[p].generation = r.generation /\ document'[p].pending = r.pending
      /\ document'[p].expires = r.expires
      /\ \A t \in Targets : r.actions[t] <= document'[p].actions[t]
  <2>1. \A t \in Targets : r.actions[t] \in Levels
    BY <1>1, RecordFields
  <2>2. CASE document' = document
    BY <1>1, <2>1, <2>2 DEF Levels
  <2>3. CASE document' = [document EXCEPT ![p] = Tightened(r, order.target, order.level)]
    <3>1. document'[p] = Tightened(r, order.target, order.level)
          /\ \A q \in Profiles \ {p} : document'[q] = document[q]
      BY <1>1, <2>3 DEF TypeOK
    <3>2. \A t \in Targets : r.actions[t] <= Tightened(r, order.target, order.level).actions[t]
      <4>1. ASSUME NEW t \in Targets, t # order.target
            PROVE  r.actions[t] <= Tightened(r, order.target, order.level).actions[t]
        <5>1. Tightened(r, order.target, order.level).actions[t] = r.actions[t]
          BY <1>1, <4>1, TightenedFacts
        <5>2. QED
          BY <2>1, <5>1 DEF Levels
      <4>2. r.actions[order.target] <= Tightened(r, order.target, order.level).actions[order.target]
        <5>1. Tightened(r, order.target, order.level).actions[order.target]
                = Larger(r.actions[order.target], order.level)
          BY <1>1, TightenedFacts
        <5>2. QED
          BY <1>1, <2>1, <5>1, RangeFacts
      <4>3. QED
        BY <4>1, <4>2
    <3>3. QED
      BY <1>1, <3>1, <3>2, TightenedFacts
  <2>4. QED
    BY <2>2, <2>3 DEF Journal
<1>5. disk' \in {disk, document'}
  BY DEF Journal, TryWrite
<1>6. FileInv'
  BY <1>1, <1>4, <1>5 DEF FileInv
<1>7. LiveInv'
  BY <1>1, <1>2, <1>3, <1>4 DEF LiveInv, TypeOK
<1>8. WorkerInv' /\ LatchInv' /\ SnapshotInv'
  BY <1>1, <1>2, <1>3 DEF WorkerInv, LatchInv, SnapshotInv
<1>9. MemoryInv'
  <2> SUFFICES ASSUME NEW h \in Generations, NEW t \in Targets, applied[h][t] # 0, ~ HandedBack(h, t)
               PROVE  Recorded(document'[of[h]], h, t)
    BY <1>2 DEF MemoryInv, HandedBack, Recorded
  <2>1. Recorded(document[of[h]], h, t) /\ of[h] \in Profiles /\ applied[h][t] \in Levels
    BY DEF MemoryInv, WorkerInv, TypeOK
  <2>2. document[of[h]].actions[t] \in Levels /\ document'[of[h]].actions[t] \in Levels
    BY <2>1, RecordFields DEF TypeOK
  <2>3. QED
    BY <1>4, <2>1, <2>2 DEF Recorded, Levels
<1>10. NoRestrictionForgotten'
  <2>1. CASE disk' = disk
    BY <1>2, <2>1 DEF NoRestrictionForgotten, HandedBack, Recorded
  <2>2. CASE disk' = document'
    BY <1>9, <2>2 DEF NoRestrictionForgotten, MemoryInv, HandedBack, Recorded
  <2>3. QED
    BY <1>5, <2>1, <2>2
<1>11. WrittenInv'
  <2>1. ASSUME NEW t \in Targets, p \notin unsettled'
        PROVE  applied[g][t] <= document'[p].actions[t]
    <3>1. document' = [document EXCEPT ![p] = Tightened(r, order.target, order.level)] /\ p \notin unsettled
      BY <2>1 DEF Journal
    <3>2. /\ document'[p].actions[order.target] = Larger(r.actions[order.target], order.level)
          /\ \A u \in Targets \ {order.target} : document'[p].actions[u] = r.actions[u]
      <4>1. document'[p] = Tightened(r, order.target, order.level)
        BY <1>1, <3>1 DEF TypeOK
      <4>2. QED
        BY <1>1, <4>1, TightenedFacts
    <3>3. \/ applied[g][t] <= r.actions[t]
          \/ order.target = t /\ applied[g][t] <= Larger(r.actions[t], order.level)
      BY <1>1, <3>1 DEF WrittenInv
    <3>4. applied[g][t] \in Levels /\ r.actions[t] \in Levels
      BY <1>1, RecordFields DEF TypeOK
    <3>5. QED
      BY <1>1, <3>2, <3>3, <3>4 DEF Larger, Levels
  <2>2. ASSUME NEW h \in Generations \ {g}, pc'[h] # "new", live'[of'[h]] = h
        PROVE  of[h] \in Profiles \ {p} /\ pc'[h] = pc[h] /\ pc[h] # "journal"
               /\ document'[of[h]] = document[of[h]] /\ (of[h] \in unsettled => of[h] \in unsettled')
    BY <1>1, <1>2, <1>3, <1>4, <2>2 DEF WorkerInv, Journal
  <2>3. QED
    BY <1>1, <1>2, <2>1, <2>2 DEF WrittenInv
<1>12. BoundInv'
  BY <1>1, <1>2, <1>4 DEF BoundInv
<1>13. QED
  BY <1>6, <1>7, <1>8, <1>9, <1>10, <1>11, <1>12

\* A worker that ends settles only its own record, and only when memory holds
\* all it applied.
LEMMA FinishStep ==
  ASSUME IndInv, TypeOK', NEW g \in Generations, Finish(g)
  PROVE  IndInv'
<1> USE DEF IndInv
<1> DEFINE p == of[g]
           r == document[p]
<1>1. p \in Profiles /\ pc[g] = "poll" /\ g # Nobody /\ r \in Records
  BY JournalAssumption DEF Finish, WorkerInv, TypeOK
<1>2. UNCHANGED <<unsettled, profile, bound, control, revoked, authority, signed,
                  of, order, applied, snapshot, ledger, uncertain>>
  BY DEF Finish, instance, client
<1>3. pc'[g] = "done" /\ \A h \in Generations \ {g} : pc'[h] = pc[h]
  BY <1>1 DEF Finish, TypeOK
<1>4. /\ live'[p] # g
      /\ \A q \in Profiles : live'[q] = live[q] \/ (q = p /\ live[q] = g /\ live'[q] = Nobody)
  BY <1>1 DEF Finish, TypeOK
<1>5. /\ \A q \in Profiles : q # p \/ live[p] # g => document'[q] = document[q]
      /\ \A q \in Profiles : /\ document'[q].generation = document[q].generation
                             /\ document'[q].actions = document[q].actions
                             /\ document'[q].expires = document[q].expires
                             /\ document'[q].pending => document[q].pending \/ (q = p /\ live[p] = g)
      /\ live[p] = g /\ p \in unsettled => document'[p].pending
  <2>1. CASE live[p] # g
    BY <1>1, <2>1 DEF Finish
  <2>2. CASE live[p] = g
    <3>1. document' = [document EXCEPT ![p] = Settled(r, p \in unsettled)]
      BY <2>2 DEF Finish
    <3>2. document'[p] = Settled(r, p \in unsettled) /\ \A q \in Profiles \ {p} : document'[q] = document[q]
      BY <1>1, <3>1 DEF TypeOK
    <3>3. /\ document'[p].generation = r.generation /\ document'[p].actions = r.actions
          /\ document'[p].expires = r.expires /\ document'[p].pending = (p \in unsettled)
      BY <1>1, <3>2 DEF Settled, Records
    <3>4. QED
      BY <2>2, <3>2, <3>3
  <2>3. QED
    BY <2>1, <2>2
<1>6. disk' \in {disk, document'}
  BY DEF Finish, TryWrite
<1>7. FileInv'
  BY <1>1, <1>5, <1>6 DEF FileInv, LiveInv
<1>8. LiveInv'
  <2> SUFFICES ASSUME NEW q \in Profiles, live'[q] # Nobody
               PROVE  /\ document'[q].generation = live'[q] /\ document'[q].pending
                      /\ of'[live'[q]] = q /\ pc'[live'[q]] \in {"poll", "journal"}
    BY DEF LiveInv
  <2>1. live'[q] = live[q] /\ live[q] \in Generations
    BY <1>4 DEF TypeOK
  <2>2. live[q] # g
    BY <1>4, <2>1 DEF LiveInv
  <2>3. document'[q] = document[q]
    BY <1>1, <1>5, <2>2
  <2>4. QED
    BY <1>2, <1>3, <2>1, <2>2, <2>3 DEF LiveInv
<1>9. WorkerInv'
  BY <1>1, <1>2, <1>3, <1>4 DEF WorkerInv, TypeOK
<1>10. LatchInv' /\ SnapshotInv'
  BY <1>2 DEF LatchInv, SnapshotInv
<1>11. MemoryInv'
  <2> SUFFICES ASSUME NEW h \in Generations, NEW t \in Targets, applied[h][t] # 0, ~ HandedBack(h, t)
               PROVE  Recorded(document'[of[h]], h, t)
    BY <1>2 DEF MemoryInv, HandedBack, Recorded
  <2>1. Recorded(document[of[h]], h, t) /\ of[h] \in Profiles /\ pc[h] # "new"
    BY DEF MemoryInv, WorkerInv
  <2>2. CASE of[h] # p \/ live[p] # g
    BY <1>5, <2>1, <2>2 DEF Recorded
  <2>3. CASE of[h] = p /\ live[p] = g
    <3>1. r.generation = g
      BY <1>1, <2>3 DEF LiveInv
    <3>2. CASE h # g
      BY <1>5, <2>1, <2>3, <3>1, <3>2 DEF Recorded
    <3>3. CASE h = g /\ p \in unsettled
      BY <1>1, <1>5, <2>3, <3>1, <3>3 DEF Recorded
    <3>4. CASE h = g /\ p \notin unsettled
      <4>1. applied[h][t] <= r.actions[t]
        BY <1>1, <2>3, <3>4 DEF WrittenInv
      <4>2. QED
        BY <1>1, <1>5, <2>3, <4>1 DEF Recorded
    <3>5. QED
      BY <3>2, <3>3, <3>4
  <2>4. QED
    BY <2>2, <2>3
<1>12. NoRestrictionForgotten'
  <2>1. CASE disk' = disk
    BY <1>2, <2>1 DEF NoRestrictionForgotten, HandedBack, Recorded
  <2>2. CASE disk' = document'
    BY <1>11, <2>2 DEF NoRestrictionForgotten, MemoryInv, HandedBack, Recorded
  <2>3. QED
    BY <1>6, <2>1, <2>2
<1>13. WrittenInv'
  <2>1. ASSUME NEW h \in Generations, pc'[h] # "new", live'[of'[h]] = h
        PROVE  h # g /\ of[h] \in Profiles /\ pc'[h] = pc[h] /\ live[of[h]] = h
               /\ document'[of[h]].actions = document[of[h]].actions
    BY <1>1, <1>2, <1>3, <1>4, <1>5, <2>1, JournalAssumption DEF WorkerInv
  <2>2. QED
    BY <1>2, <2>1 DEF WrittenInv
<1>14. BoundInv'
  BY <1>1, <1>2, <1>4, <1>5 DEF BoundInv, TypeOK
<1>15. QED
  BY <1>7, <1>8, <1>9, <1>10, <1>11, <1>12, <1>13, <1>14

\* A renewal only lets expiries of the current record grow, on disk first.
LEMMA RenewalSteps ==
  ASSUME IndInv, TypeOK', profile # Nobody, NEW e \in Expiries,
         UNCHANGED <<live, unsettled, profile, control, revoked, workers, client>>,
         \/ UNCHANGED <<document, disk>>
         \/ document' = [document EXCEPT ![profile] = Extended(@, e)] /\ disk' = document',
         bound' \in {bound, Larger(bound, e)}, authority' \in {authority, Larger(authority, e)},
         authority' <= bound',
         control # Nobody /\ live[profile] = control => bound' <= document'[profile].expires
  PROVE  IndInv'
<1> USE DEF IndInv, workers, client
<1>1. profile \in Profiles
  BY DEF TypeOK
<1>2. \A p \in Profiles : /\ document'[p].generation = document[p].generation
                          /\ document'[p].actions = document[p].actions
                          /\ document'[p].pending = document[p].pending
  <2>1. document[profile] \in Records /\ document \in [Profiles -> Records]
    BY <1>1 DEF TypeOK
  <2>2. CASE document' = document
    BY <2>2
  <2>3. CASE document' = [document EXCEPT ![profile] = Extended(@, e)]
    <3>1. document'[profile] = Extended(document[profile], e)
          /\ \A p \in Profiles \ {profile} : document'[p] = document[p]
      BY <1>1, <2>1, <2>3
    <3>2. QED
      BY <2>1, <3>1, ExtendedFacts
  <2>4. QED
    BY <2>2, <2>3
<1>3. FileInv'
  BY DEF FileInv
<1>4. LiveInv' /\ WorkerInv' /\ LatchInv' /\ SnapshotInv' /\ BoundInv'
  BY <1>2 DEF LiveInv, WorkerInv, LatchInv, SnapshotInv, BoundInv
<1>5. \A h \in Generations, t \in Targets : applied[h][t] # 0 => of[h] \in Profiles
  BY DEF WorkerInv
<1>6. MemoryInv'
  BY <1>2, <1>5 DEF MemoryInv, HandedBack, Recorded
<1>7. NoRestrictionForgotten'
  <2>1. CASE disk' = disk
    BY <2>1 DEF NoRestrictionForgotten, HandedBack, Recorded
  <2>2. CASE disk' = document'
    BY <1>6, <2>2 DEF NoRestrictionForgotten, MemoryInv, HandedBack, Recorded
  <2>3. QED
    BY <2>1, <2>2
<1>8. WrittenInv'
  BY <1>2 DEF WrittenInv, WorkerInv
<1>9. QED
  BY <1>3, <1>4, <1>6, <1>7, <1>8

\* What the client reads it holds afterwards.
LEMMA ReadStep ==
  ASSUME IndInv, TypeOK', ReadRestrictions
  PROVE  IndInv'
<1> USE DEF IndInv
<1>1. UNCHANGED <<document, live, unsettled, profile, bound, control, revoked, authority, signed,
                  pc, of, order, applied>> /\ disk' = document
  BY DEF ReadRestrictions, instance, workers
<1>2. FileInv' /\ LiveInv' /\ WorkerInv' /\ LatchInv' /\ BoundInv'
  BY <1>1 DEF FileInv, LiveInv, WorkerInv, LatchInv, BoundInv
<1>3. WrittenInv'
  BY <1>1 DEF WrittenInv
<1>4. \A p \in Profiles, t \in Targets :
         /\ ledger[p][t] \in Levels /\ document[p].actions[t] \in Levels
         /\ ledger'[p][t] = Larger(ledger[p][t], document[p].actions[t])
  <2>1. \A p \in Profiles, t \in Targets : ledger[p][t] \in Levels /\ document[p].actions[t] \in Levels
    BY RecordFields DEF TypeOK
  <2>2. QED
    BY <2>1 DEF ReadRestrictions, Retain
<1>5. \A p \in Profiles, t \in Targets :
         ledger[p][t] <= ledger'[p][t] /\ document[p].actions[t] <= ledger'[p][t]
  BY <1>4, RangeFacts
<1>6. MemoryInv' /\ NoRestrictionForgotten'
  <2> SUFFICES ASSUME NEW h \in Generations, NEW t \in Targets, applied[h][t] # 0
               PROVE  HandedBack(h, t)' \/ Recorded(document[of[h]], h, t)'
    BY <1>1 DEF MemoryInv, NoRestrictionForgotten
  <2>1. of[h] \in Profiles /\ applied[h][t] \in Levels /\ ledger'[of[h]][t] \in Levels
    BY DEF WorkerInv, TypeOK
  <2>2. HandedBack(h, t) => HandedBack(h, t)'
    <3>1. uncertain \subseteq uncertain'
      BY DEF ReadRestrictions
    <3>2. QED
      BY <1>1, <1>4, <1>5, <2>1, <3>1 DEF HandedBack, Levels
  <2>3. Recorded(document[of[h]], h, t) => Recorded(document[of[h]], h, t)'
    BY <1>1 DEF Recorded
  <2>4. QED
    BY <2>2, <2>3 DEF MemoryInv
<1>7. SnapshotInv'
  <2>1. snapshot'.records = document /\ snapshot'.live = View.live
    BY DEF ReadRestrictions, View
  <2>2. ASSUME NEW p \in Profiles, document[p].generation # Nobody, document[p].pending, p \notin View.live
        PROVE  document[p].generation \in uncertain'
    BY <2>2 DEF ReadRestrictions, Present
  <2>3. QED
    BY <1>5, <2>1, <2>2 DEF SnapshotInv
<1>8. QED
  BY <1>2, <1>3, <1>6, <1>7

\* An acknowledgement drops only records the client holds: the snapshot it
\* names is the present one.
LEMMA AcknowledgeStep ==
  ASSUME IndInv, TypeOK', Acknowledge
  PROVE  IndInv'
<1> USE DEF IndInv
<1>1. /\ UNCHANGED <<live, profile, bound, control, revoked, authority, signed, pc, of, order, applied,
                     snapshot, ledger, uncertain>>
      /\ disk' = document'
  BY DEF Acknowledge, instance, workers, client
<1>2. \A p \in Profiles : live[p] # Nobody => document'[p] = document[p]
  <2>1. \A p \in Profiles : live[p] # Nobody => p \in View.live
    BY DEF LiveInv, View, Present
  <2>2. QED
    BY <2>1 DEF Acknowledge, LiveRecords
<1>3. FileInv'
  BY <1>1 DEF FileInv
<1>4. LiveInv' /\ WorkerInv' /\ LatchInv' /\ SnapshotInv'
  BY <1>1, <1>2 DEF LiveInv, WorkerInv, LatchInv, SnapshotInv
<1>5. BoundInv'
  BY <1>1, <1>2 DEF BoundInv, TypeOK
<1>6. MemoryInv'
  <2> SUFFICES ASSUME NEW h \in Generations, NEW t \in Targets, applied[h][t] # 0, ~ HandedBack(h, t)
               PROVE  Recorded(document'[of[h]], h, t)
    BY <1>1 DEF MemoryInv, HandedBack, Recorded
  <2>1. of[h] \in Profiles /\ Recorded(document[of[h]], h, t) /\ applied[h][t] \in Levels
    BY DEF WorkerInv, MemoryInv, TypeOK
  <2>2. CASE document' = document
    BY <2>1, <2>2
  <2>3. CASE snapshot = View /\ document' = LiveRecords
    <3>1. CASE of[h] \in View.live
      BY <2>1, <2>3, <3>1 DEF LiveRecords
    <3>2. CASE of[h] \notin View.live
      <4>1. snapshot.records = document /\ snapshot.live = View.live
        BY <2>3 DEF View
      <4>2. document[of[h]].actions[t] <= ledger[of[h]][t]
        BY <2>1, <4>1 DEF SnapshotInv
      <4>3. document[of[h]].actions[t] \in Levels /\ ledger[of[h]][t] \in Levels
        BY <2>1, RecordFields DEF TypeOK
      <4>4. ~ (applied[h][t] <= document[of[h]].actions[t])
        BY <2>1, <4>2, <4>3 DEF HandedBack, Levels
      <4>5. document[of[h]].pending /\ document[of[h]].generation = h
        BY <2>1, <4>4 DEF Recorded
      <4>6. h \in uncertain
        BY <2>1, <3>2, <4>1, <4>5, JournalAssumption DEF SnapshotInv
      <4>7. QED
        BY <4>6 DEF HandedBack
    <3>3. QED
      BY <3>1, <3>2
  <2>4. QED
    BY <2>2, <2>3 DEF Acknowledge
<1>7. NoRestrictionForgotten'
  BY <1>1, <1>6 DEF NoRestrictionForgotten, MemoryInv, HandedBack, Recorded
<1>8. WrittenInv'
  <2>1. ASSUME NEW h \in Generations, pc[h] # "new", live[of[h]] = h, of[h] \notin unsettled'
        PROVE  of[h] \notin unsettled /\ document'[of[h]] = document[of[h]]
    <3>1. of[h] \in Profiles /\ h # Nobody
      BY <2>1, JournalAssumption DEF WorkerInv
    <3>2. of[h] \in View.live
      BY <2>1, <3>1 DEF LiveInv, View, Present
    <3>3. QED
      BY <1>2, <2>1, <3>1, <3>2 DEF Acknowledge
  <2>2. QED
    BY <1>1, <2>1 DEF WrittenInv
<1>9. QED
  BY <1>3, <1>4, <1>5, <1>6, <1>7, <1>8

\* After a crash memory is the file, and no worker lives.
LEMMA CrashStep ==
  ASSUME IndInv, TypeOK', Crash
  PROVE  IndInv'
<1> USE DEF IndInv
<1>1. /\ document' = disk /\ UNCHANGED <<disk, of, applied, snapshot, ledger, uncertain>>
      /\ \A p \in Profiles : live'[p] = Nobody
      /\ control' = Nobody /\ profile' = Nobody
      /\ \A g \in Generations : pc'[g] # "journal" /\ (pc'[g] = "new" <=> pc[g] = "new")
  BY DEF Crash, client
<1>2. FileInv' /\ LiveInv' /\ LatchInv' /\ BoundInv'
  BY <1>1 DEF FileInv, LiveInv, LatchInv, BoundInv
<1>3. WorkerInv'
  BY <1>1 DEF WorkerInv
<1>4. MemoryInv' /\ NoRestrictionForgotten'
  BY <1>1 DEF MemoryInv, NoRestrictionForgotten, HandedBack, Recorded
<1>5. WrittenInv'
  BY <1>1, JournalAssumption DEF WrittenInv, WorkerInv
<1>6. SnapshotInv'
  BY <1>1 DEF SnapshotInv
<1>7. QED
  BY <1>2, <1>3, <1>4, <1>5, <1>6

\* The host's renewal: extendExpiry has written the larger bound.
LEMMA HostRenewStep ==
  ASSUME IndInv, TypeOK', NEW s \in Scopes, NEW e \in Expiries, NEW late \in BOOLEAN,
         HostRenew(s, e, late)
  PROVE  IndInv'
<1> DEFINE grows == e > bound /\ control # Nobody /\ live[profile] = control
                    /\ e > document[profile].expires
<1>1. /\ profile # Nobody /\ profile \in Profiles /\ document[profile] \in Records
      /\ document \in [Profiles -> Records]
      /\ bound \in Nat /\ authority \in Nat /\ e \in Nat /\ document[profile].expires \in Nat
  BY RangeFacts, RecordFields DEF HostRenew, IndInv, TypeOK
<1>2. UNCHANGED <<live, unsettled, profile, control, revoked, workers, client>>
  BY DEF HostRenew
<1>3. /\ bound' = Larger(bound, e) /\ authority' \in {authority, Larger(authority, e)}
      /\ authority <= bound
  BY <1>1 DEF HostRenew, IndInv, BoundInv
<1>4. authority' <= bound'
  BY <1>1, <1>3 DEF Larger
<1>5. CASE ~ grows
  <2>1. UNCHANGED <<document, disk>>
    BY <1>5 DEF HostRenew
  <2>2. control # Nobody /\ live[profile] = control =>
           bound <= document[profile].expires /\ (e <= bound \/ e <= document[profile].expires)
    BY <1>1, <1>5 DEF IndInv, BoundInv
  <2>3. control # Nobody /\ live[profile] = control => bound' <= document'[profile].expires
    BY <1>1, <1>3, <2>1, <2>2 DEF Larger
  <2>4. QED
    BY <1>1, <1>2, <1>3, <1>4, <2>1, <2>3, RenewalSteps
<1>6. CASE grows
  <2> document' = [document EXCEPT ![profile] = Extended(@, e)] /\ disk' = document' /\ e > bound
    BY <1>6 DEF HostRenew
  <2>1. document'[profile].expires = Larger(document[profile].expires, e)
    <3>1. document'[profile] = Extended(document[profile], e)
      BY <1>1, <1>6
    <3>2. QED
      BY <1>1, <3>1, ExtendedFacts
  <2>2. bound' <= document'[profile].expires
    BY <1>1, <1>3, <1>6, <2>1 DEF Larger
  <2>3. QED
    BY <1>1, <1>2, <1>3, <1>4, <1>6, <2>2, RenewalSteps
<1>7. QED
  BY <1>5, <1>6

\* The signed renewal: retainRenewal has written the larger bound.
LEMMA SignedRenewStep ==
  ASSUME IndInv, TypeOK', NEW g \in Generations, NEW s \in Scopes, NEW e \in Expiries,
         NEW late \in BOOLEAN, SignedRenew(g, s, e, late)
  PROVE  IndInv'
<1>1. /\ profile # Nobody /\ profile \in Profiles /\ document[profile] \in Records
      /\ document \in [Profiles -> Records] /\ control = g /\ live[profile] = g /\ g # Nobody
      /\ bound \in Nat /\ authority \in Nat /\ e \in Nat /\ document[profile].expires \in Nat
  BY RangeFacts, RecordFields, JournalAssumption, ZenonT(30) DEF SignedRenew, RetainsRenewal, IndInv, TypeOK
<1>2. /\ UNCHANGED <<live, unsettled, profile, control, revoked, workers, client>>
      /\ document' = [document EXCEPT ![profile] = Extended(@, e)] /\ disk' = document'
  BY DEF SignedRenew
<1>3. /\ \/ bound' = Larger(bound, e) /\ authority' = Larger(authority, e)
         \/ bound' = bound /\ authority' = authority
      /\ authority <= bound /\ bound <= document[profile].expires
  BY <1>1 DEF SignedRenew, RetainsRenewal, IndInv, BoundInv
<1>4. document'[profile].expires = Larger(document[profile].expires, e)
  <2>1. document'[profile] = Extended(document[profile], e)
    BY <1>1, <1>2
  <2>2. QED
    BY <1>1, <2>1, ExtendedFacts
<1>5. authority' <= bound' /\ bound' <= document'[profile].expires
  BY <1>1, <1>3, <1>4 DEF Larger
<1>6. bound' \in {bound, Larger(bound, e)} /\ authority' \in {authority, Larger(authority, e)}
  BY <1>3
<1>7. QED
  BY <1>1, <1>2, <1>5, <1>6, RenewalSteps

\* Every step preserves the inductive invariant.
LEMMA NextIndInv == IndInv /\ [Next]_vars => IndInv'
<1> SUFFICES ASSUME IndInv, [Next]_vars PROVE IndInv'
  OBVIOUS
<1> TypeOK'
  BY NextTypeOK DEF IndInv
<1>1. ASSUME NEW p \in Profiles, NEW e \in Expiries, StartInstance(p, e) PROVE IndInv'
  <2>1. e <= e /\ \A g \in Generations : pc[g] # "journal"
    BY <1>1, RangeFacts, JournalAssumption DEF StartInstance, IndInv, WorkerInv
  <2>2. QED
    BY <1>1, <2>1, InstanceSteps DEF StartInstance
<1>2. CASE StopInstance
  BY <1>2, InstanceSteps DEF StopInstance, ServiceFree
<1>3. ASSUME NEW R \in SUBSET Scopes, HostRevokes(R) PROVE IndInv'
  BY <1>3, InstanceSteps DEF HostRevokes
<1>4. ASSUME NEW g \in Generations, Configure(g) PROVE IndInv'
  BY <1>4, ConfigureStep
<1>5. ASSUME NEW g \in Generations, ApplyControl(g) \/ ApplyScope(g) PROVE IndInv'
  <2> PICK d \in Decisions : Apply(g, d[1], d[2])
    BY <1>5 DEF ApplyControl, ApplyScope
  <2>1. d[1] \in Targets /\ d[2] \in Levels
    BY JournalAssumption DEF Targets, Levels
  <2>2. QED
    BY <2>1, ApplyStep
<1>6. ASSUME NEW g \in Generations, Journal(g) PROVE IndInv'
  BY <1>6, JournalStep
<1>7. ASSUME NEW g \in Generations, Finish(g) PROVE IndInv'
  BY <1>7, FinishStep
<1>8. ASSUME NEW s \in Scopes, NEW e \in Expiries, NEW late \in BOOLEAN, HostRenew(s, e, late)
      PROVE  IndInv'
  BY <1>8, HostRenewStep
<1>9. ASSUME NEW g \in Generations, NEW s \in Scopes, NEW e \in Expiries, NEW late \in BOOLEAN,
             SignedRenew(g, s, e, late)
      PROVE  IndInv'
  BY <1>9, SignedRenewStep
<1>10. CASE ReadRestrictions
  BY <1>10, ReadStep
<1>11. CASE Acknowledge
  BY <1>11, AcknowledgeStep
<1>12. CASE Crash
  BY <1>12, CrashStep
<1>13. CASE UNCHANGED vars
  <2>1. UNCHANGED <<journal, workers, client>>
        /\ UNCHANGED <<profile, bound, control, authority, signed>> /\ revoked \subseteq revoked'
    BY <1>13 DEF vars, instance
  <2>2. QED
    BY <2>1, InstanceSteps
<1>14. Scopes \in SUBSET Scopes /\ \A s \in Scopes : {s} \in SUBSET Scopes
  OBVIOUS
<1>15. QED
  BY <1>1, <1>2, <1>3, <1>4, <1>5, <1>6, <1>7, <1>8, <1>9, <1>10, <1>11, <1>12, <1>13, <1>14 DEF Next

\* The journal's invariant holds in every reachable state.
LEMMA Invariance == Spec => []IndInv
  BY InitIndInv, NextIndInv, PTL DEF Spec

----------------------------------------------------------------------------
\* The variables of the journal, of the instance, of the workers and of the
\* client keep their types.
THEOREM Typing == Spec => []TypeOK
<1>1. IndInv => TypeOK
  BY DEF IndInv
<1>2. QED
  BY <1>1, Invariance, PTL

\* No order of crashes, failed writes, replaced workers, full scope maps and
\* acknowledgements loses a restriction that was applied to the engine.
THEOREM NothingForgotten == Spec => []NoRestrictionForgotten
<1>1. IndInv => NoRestrictionForgotten
  BY DEF IndInv
<1>2. QED
  BY <1>1, Invariance, PTL

\* The record of a live worker is pending on disk, whoever ends when.
THEOREM PendingKept == Spec => []PendingWhileLive
<1>1. IndInv => PendingWhileLive
  BY DEF IndInv, LiveInv, FileInv, PendingWhileLive
<1>2. QED
  BY <1>1, Invariance, PTL

\* The expiry on disk covers every lease the instance of a live worker adopted.
THEOREM RecoveryBounded == Spec => []RecoveryBoundOnDisk
<1>1. IndInv => RecoveryBoundOnDisk
  <2> SUFFICES ASSUME IndInv, profile # Nobody, control # Nobody, live[profile] = control
               PROVE  authority <= disk[profile].expires
    BY DEF RecoveryBoundOnDisk
  <2>1. profile \in Profiles /\ authority \in Nat /\ bound \in Nat /\ disk[profile].expires \in Nat
    BY RangeFacts, RecordFields DEF IndInv, TypeOK
  <2>2. authority <= bound /\ bound <= document[profile].expires
        /\ document[profile].expires = disk[profile].expires
    BY <2>1 DEF IndInv, BoundInv, FileInv
  <2>3. QED
    BY <2>1, <2>2
<1>2. QED
  BY <1>1, Invariance, PTL

\* A signed renewal never serves a scope under a restriction that the client
\* has not been handed.
THEOREM RenewalRespects == Spec => RenewalRespectsRestrictions
<1> DEFINE A == \A s \in signed' \ signed, g \in Generations :
                   of[g] = profile => /\ applied[g][s] = 0 \/ HandedBack(g, s)
                                      /\ applied[g][Policy] = 0 \/ HandedBack(g, Policy)
<1>1. IndInv /\ [Next]_vars => [A]_vars
  <2> SUFFICES ASSUME IndInv, Next, NEW s \in signed' \ signed, NEW g \in Generations, of[g] = profile
               PROVE  /\ applied[g][s] = 0 \/ HandedBack(g, s)
                      /\ applied[g][Policy] = 0 \/ HandedBack(g, Policy)
    OBVIOUS
  <2>1. PICK w \in Generations, e \in Expiries, late \in BOOLEAN : SignedRenew(w, s, e, late) /\ s \in Scopes
    BY DEF Next, StartInstance, StopInstance, HostRevokes, Configure, ApplyControl, ApplyScope, Apply, Journal, Finish,
           HostRenew, SignedRenew, ReadRestrictions, Acknowledge, Crash, instance
  <2>2. /\ profile \in Profiles /\ control = w /\ pc[w] = "poll" /\ of[w] = profile /\ w # Nobody
        /\ document[profile].generation = w /\ s \notin revoked
        /\ document[profile].actions[Policy] = 0 /\ document[profile].actions[s] = 0
    BY <2>1, JournalAssumption DEF SignedRenew, RetainsRenewal, IndInv, WorkerInv, TypeOK
  <2>3. ASSUME NEW t \in {s, Policy} PROVE applied[g][t] = 0 \/ HandedBack(g, t)
    <3> SUFFICES ASSUME applied[g][t] # 0, ~ HandedBack(g, t) PROVE FALSE
      OBVIOUS
    <3>1. t \in Targets /\ s \in Reach(t)
      BY <2>1, JournalAssumption DEF Targets, Reach
    <3>2. Recorded(document[profile], g, t) /\ applied[g][t] \in Levels
      BY <3>1 DEF IndInv, MemoryInv, TypeOK
    <3>3. ~ (applied[g][t] <= document[profile].actions[t])
      BY <2>2, <3>2 DEF Levels
    <3>4. g = w
      BY <2>2, <3>2, <3>3 DEF Recorded
    <3>5. Reach(t) \subseteq revoked
      BY <2>2, <3>1, <3>4 DEF IndInv, LatchInv
    <3>6. QED
      BY <2>2, <3>1, <3>5
  <2>4. QED
    BY <2>3
<1>2. QED
  BY <1>1, Invariance, PTL DEF Spec, RenewalRespectsRestrictions

\* A profile without a live worker gets one only after the client was handed
\* everything its earlier workers applied.
THEOREM EnrollmentSafe == Spec => EnrollmentFollowsHandback
<1> DEFINE A == \A p \in Profiles : live[p] = Nobody /\ live'[p] # Nobody =>
                   \A g \in Generations, t \in Targets :
                      of[g] = p /\ applied[g][t] # 0 => HandedBack(g, t)
<1>1. IndInv /\ [Next]_vars => [A]_vars
  <2> SUFFICES ASSUME IndInv, Next, NEW p \in Profiles, live[p] = Nobody, live'[p] # Nobody,
                      NEW g \in Generations, NEW t \in Targets, of[g] = p, applied[g][t] # 0
               PROVE  HandedBack(g, t)
    OBVIOUS
  <2>1. PICK w \in Generations : Configure(w) /\ p = profile
    BY DEF Next, StartInstance, StopInstance, HostRevokes, Configure, ApplyControl, ApplyScope, Apply, Journal, Finish,
           HostRenew, SignedRenew, ReadRestrictions, Acknowledge, Crash, journal, IndInv, TypeOK
  <2>2. ~ document[p].pending /\ document[p].actions[t] = 0
    BY <2>1 DEF Configure, MayBegin, Restricted
  <2>3. applied[g][t] \in Levels
    BY DEF IndInv, TypeOK
  <2>4. ~ Recorded(document[p], g, t)
    BY <2>2, <2>3 DEF Recorded, Levels
  <2>5. QED
    BY <2>4 DEF IndInv, MemoryInv
<1>2. QED
  BY <1>1, Invariance, PTL DEF Spec, EnrollmentFollowsHandback

-----------------------------------------------------------------------------
(* The journal implements the abstract durable restrictions.  What is      *)
(* durably known of a target is the larger of what the client retains and  *)
(* what the file says; a worker is marked while the client retains it as   *)
(* uncertain or the file shows its record as pending.                      *)

Kept == [p \in Profiles |->
           [t \in Targets |-> Larger(ledger[p][t], disk[p].actions[t])]]

Marked == {g \in Generations :
             g \in uncertain \/ \E p \in Profiles : disk[p].pending /\ disk[p].generation = g}

Durable == INSTANCE DurableRestrictions WITH
    Workers <- Generations, kept <- Kept, unsure <- Marked

\* A failed write leaves the file behind memory, never ahead of it.
FileBehind ==
  \A p \in Profiles, t \in Targets : disk[p].actions[t] <= document[p].actions[t]

\* Memory holds no restriction that no worker of the profile applied.
Truthful ==
  \A p \in Profiles, t \in Targets : document[p].actions[t] # 0 =>
     \E g \in Generations : of[g] = p /\ document[p].actions[t] <= applied[g][t]

\* The decision that is being written down was applied; a worker has a profile
\* from its begin on.
OrderInv ==
  \A g \in Generations :
     /\ pc[g] = "journal" => order.level <= applied[g][order.target]
     /\ pc[g] = "new" => of[g] = Nobody

TruthInv == FileBehind /\ Truthful /\ OrderInv

\* The levels are naturals.
LevelsOK ==
  /\ \A p \in Profiles, t \in Targets :
       /\ disk[p].actions[t] \in Nat /\ document[p].actions[t] \in Nat
       /\ ledger[p][t] \in Nat
  /\ \A g \in Generations, t \in Targets : applied[g][t] \in Nat

\* What TypeOK says of levels.
LEMMA LevelTypes == TypeOK => LevelsOK
<1> SUFFICES ASSUME TypeOK PROVE LevelsOK
  OBVIOUS
<1>1. ASSUME NEW p \in Profiles, NEW t \in Targets
      PROVE  /\ disk[p].actions[t] \in Levels /\ document[p].actions[t] \in Levels
             /\ ledger[p][t] \in Levels
  <2>1. disk[p] \in Records /\ document[p] \in Records
    BY DEF TypeOK
  <2>2. disk[p].actions[t] \in Levels /\ document[p].actions[t] \in Levels
    BY <2>1, RecordFields
  <2>3. QED
    BY <2>2 DEF TypeOK
<1>2. \A g \in Generations, t \in Targets : applied[g][t] \in Levels
  BY DEF TypeOK
<1>3. QED
  BY <1>1, <1>2 DEF LevelsOK, Levels

\* The same after a step.
LEMMA LevelTypesNext == TypeOK' => LevelsOK'
  BY LevelTypes, PTL

\* Memory that took over no restriction stays truthful.
LEMMA TruthfulKept ==
  ASSUME TypeOK, TypeOK', Truthful,
         \A p \in Profiles, t \in Targets :
            document'[p].actions[t] <= document[p].actions[t],
         \A g \in Generations, t \in Targets : applied[g][t] <= applied'[g][t],
         \A g \in Generations : of[g] # Nobody => of'[g] = of[g]
  PROVE  Truthful'
<1> SUFFICES ASSUME NEW p \in Profiles, NEW t \in Targets, document'[p].actions[t] # 0
             PROVE  \E g \in Generations :
                       of'[g] = p /\ document'[p].actions[t] <= applied'[g][t]
  BY DEF Truthful
<1>1. LevelsOK /\ LevelsOK'
  BY LevelTypes, LevelTypesNext
<1>2. document'[p].actions[t] \in Nat /\ document[p].actions[t] \in Nat
  BY <1>1 DEF LevelsOK
<1>3. document[p].actions[t] # 0
  BY <1>2
<1>4. PICK g \in Generations : of[g] = p /\ document[p].actions[t] <= applied[g][t]
  BY <1>3 DEF Truthful
<1>5. applied[g][t] \in Nat /\ applied'[g][t] \in Nat /\ applied[g][t] <= applied'[g][t]
  BY <1>1 DEF LevelsOK
<1>6. document'[p].actions[t] <= applied'[g][t]
  BY <1>2, <1>4, <1>5
<1>7. of'[g] = p
  BY <1>4, JournalAssumption
<1>8. QED
  BY <1>6, <1>7

\* The records keep their actions in a begin, an extension and a settlement.
LEMMA SameActions ==
  ASSUME TypeOK, NEW p \in Profiles, NEW r \in Records, document' = [document EXCEPT ![p] = r],
         r.actions = document[p].actions
  PROVE  \A q \in Profiles : document'[q].actions = document[q].actions
<1>1. document \in [Profiles -> Records]
  BY DEF TypeOK
<1>2. QED
  BY <1>1

\* A step that leaves the actions in memory and what was applied as they are.
LEMMA TruthSame ==
  ASSUME TypeOK, TypeOK', TruthInv, UNCHANGED <<of, applied, order>>,
         \A q \in Profiles : document'[q].actions = document[q].actions,
         \A q \in Profiles : disk'[q].actions \in {disk[q].actions, document[q].actions},
         \A g \in Generations : pc'[g] \in {"journal", "new"} => pc'[g] = pc[g]
  PROVE  TruthInv'
<1>1. LevelsOK /\ LevelsOK'
  BY LevelTypes, LevelTypesNext
<1>2. FileBehind'
  <2> SUFFICES ASSUME NEW p \in Profiles, NEW t \in Targets
               PROVE  disk'[p].actions[t] <= document'[p].actions[t]
    BY DEF FileBehind
  <2>1. disk[p].actions[t] <= document[p].actions[t] /\ document[p].actions[t] \in Nat
    BY <1>1 DEF TruthInv, FileBehind, LevelsOK
  <2>2. QED
    BY <2>1
<1>3. Truthful'
  <2>1. \A p \in Profiles, t \in Targets : document'[p].actions[t] <= document[p].actions[t]
    BY <1>1 DEF LevelsOK
  <2>2. \A g \in Generations, t \in Targets : applied[g][t] <= applied'[g][t]
    BY <1>1 DEF LevelsOK
  <2>3. QED
    BY <2>1, <2>2, TruthfulKept DEF TruthInv
<1>4. OrderInv'
  BY DEF OrderInv, TruthInv
<1>5. QED
  BY <1>2, <1>3, <1>4 DEF TruthInv

\* Configure: the new worker has applied nothing and gets its profile.
LEMMA ConfigureTruth ==
  ASSUME IndInv, TypeOK', TruthInv, NEW g \in Generations, Configure(g)
  PROVE  TruthInv'
<1>1. profile \in Profiles /\ document[profile] \in Records /\ bound \in Expiries
  BY DEF Configure, IndInv, TypeOK
<1>2. \A q \in Profiles : document'[q].actions = document[q].actions
  BY <1>1, BegunFacts, SameActions DEF Configure, IndInv
<1>3. LevelsOK /\ LevelsOK'
  BY LevelTypes, LevelTypesNext DEF IndInv
<1>4. disk' = document' /\ applied' = applied /\ pc[g] = "new"
  BY DEF Configure
<1>5. of[g] = Nobody /\ of' = [of EXCEPT ![g] = profile]
  BY <1>4 DEF Configure, TruthInv, OrderInv
<1>6. FileBehind'
  BY <1>3, <1>4 DEF FileBehind, LevelsOK
<1>7. Truthful'
  <2>1. \A p \in Profiles, t \in Targets : document'[p].actions[t] <= document[p].actions[t]
    BY <1>2, <1>3 DEF LevelsOK
  <2>2. \A d \in Generations, t \in Targets : applied[d][t] <= applied'[d][t]
    BY <1>3, <1>4 DEF LevelsOK
  <2>3. \A d \in Generations : of[d] # Nobody => of'[d] = of[d]
    BY <1>5 DEF IndInv, TypeOK
  <2>4. QED
    BY <2>1, <2>2, <2>3, TruthfulKept DEF TruthInv, IndInv
<1>8. OrderInv'
  <2>1. \A d \in Generations : pc'[d] # "journal"
    BY DEF Configure, ServiceFree, IndInv, TypeOK
  <2>2. \A d \in Generations : pc'[d] = "new" => pc[d] = "new" /\ d # g
    BY DEF Configure, IndInv, TypeOK
  <2>3. \A d \in Generations : d # g => of'[d] = of[d]
    BY <1>5 DEF IndInv, TypeOK
  <2>4. QED
    BY <2>1, <2>2, <2>3 DEF OrderInv, TruthInv
<1>9. QED
  BY <1>6, <1>7, <1>8 DEF TruthInv

\* A decision is in the history of its worker before it is written down.
LEMMA ApplyTruth ==
  ASSUME IndInv, TypeOK', TruthInv, NEW g \in Generations, NEW t \in Targets,
         NEW level \in Levels, Apply(g, t, level)
  PROVE  TruthInv'
<1>1. LevelsOK /\ LevelsOK'
  BY LevelTypes, LevelTypesNext DEF IndInv
<1>2. /\ UNCHANGED <<document, disk, of>> /\ order' = [target |-> t, level |-> level]
      /\ applied' = [applied EXCEPT ![g][t] = Larger(@, level)]
      /\ pc' = [pc EXCEPT ![g] = "journal"] /\ \A d \in Generations : pc[d] # "journal"
  BY DEF Apply, journal, ServiceFree
<1>3. /\ applied \in [Generations -> [Targets -> Levels]] /\ pc \in [Generations -> {"new", "poll", "journal", "done"}]
      /\ pc[g] = "poll"
  BY DEF IndInv, TypeOK, Apply
<1>4. applied'[g][t] = Larger(applied[g][t], level)
  BY <1>2, <1>3
<1>5. \A d \in Generations, u \in Targets : <<d, u>> # <<g, t>> => applied'[d][u] = applied[d][u]
  BY <1>2, <1>3
<1>6. \A d \in Generations, u \in Targets : applied[d][u] <= applied'[d][u]
  <2> SUFFICES ASSUME NEW d \in Generations, NEW u \in Targets
               PROVE  applied[d][u] <= applied'[d][u]
    OBVIOUS
  <2>1. applied[d][u] \in Levels
    BY <1>3
  <2>2. QED
    BY <1>4, <1>5, <2>1, RangeFacts DEF Levels
<1>7. FileBehind'
  BY <1>2 DEF FileBehind, TruthInv
<1>8. Truthful'
  <2>1. \A p \in Profiles, u \in Targets : document'[p].actions[u] <= document[p].actions[u]
    BY <1>1, <1>2 DEF LevelsOK
  <2>2. QED
    BY <1>2, <1>6, <2>1, TruthfulKept DEF TruthInv, IndInv
<1>9. OrderInv'
  <2>1. applied[g][t] \in Levels
    BY <1>3
  <2>2. level <= applied'[g][t]
    BY <1>4, <2>1, RangeFacts
  <2>3. \A d \in Generations :
           (pc'[d] = "journal" => d = g) /\ (pc'[d] = "new" => pc[d] = "new")
    BY <1>2, <1>3
  <2>4. QED
    BY <1>2, <2>2, <2>3 DEF OrderInv, TruthInv
<1>10. QED
  BY <1>7, <1>8, <1>9 DEF TruthInv

\* restrict writes down what the worker applied.
LEMMA JournalTruth ==
  ASSUME IndInv, TypeOK', TruthInv, NEW g \in Generations, Journal(g)
  PROVE  TruthInv'
<1> DEFINE p == of[g]
           u == order.target
           l == order.level
<1>1. /\ p \in Profiles /\ document[p] \in Records /\ document \in [Profiles -> Records]
      /\ u \in Targets /\ l \in Levels /\ pc \in [Generations -> {"new", "poll", "journal", "done"}]
  BY DEF Journal, IndInv, WorkerInv, TypeOK
<1>2. LevelsOK /\ LevelsOK'
  BY LevelTypes, LevelTypesNext DEF IndInv
<1>3. /\ UNCHANGED <<of, applied>> /\ pc' = [pc EXCEPT ![g] = "poll"] /\ pc[g] = "journal"
      /\ \A d \in Generations : pc[d] = "journal" => d = g
  BY DEF Journal, IndInv, WorkerInv
<1>4. OrderInv'
  <2>1. \A d \in Generations : pc'[d] # "journal" /\ (pc'[d] = "new" => pc[d] = "new")
    BY <1>1, <1>3
  <2>2. QED
    BY <1>3, <2>1 DEF OrderInv, TruthInv
<1>5. CASE UNCHANGED <<document, disk>>
  BY <1>3, <1>4, <1>5 DEF TruthInv, FileBehind, Truthful
<1>6. CASE document' = [document EXCEPT ![p] = Tightened(@, u, l)] /\ disk' \in {disk, document'}
  <2>1. /\ document'[p] = Tightened(document[p], u, l)
        /\ \A q \in Profiles \ {p} : document'[q] = document[q]
    BY <1>1, <1>6
  <2>2. \A q \in Profiles, t \in Targets :
           \/ document'[q].actions[t] = document[q].actions[t]
           \/ q = p /\ t = u /\ document'[q].actions[t] = Larger(document[q].actions[t], l)
    <3>1. /\ document'[p].actions[u] = Larger(document[p].actions[u], l)
          /\ \A t \in Targets \ {u} : document'[p].actions[t] = document[p].actions[t]
      BY <1>1, <2>1, TightenedFacts
    <3> HIDE DEF p, u, l
    <3>2. QED
      BY <2>1, <3>1
  <2>3. FileBehind'
    <3> SUFFICES ASSUME NEW q \in Profiles, NEW t \in Targets
                 PROVE  disk'[q].actions[t] <= document'[q].actions[t]
      BY DEF FileBehind
    <3>1. /\ disk[q].actions[t] <= document[q].actions[t] /\ disk[q].actions[t] \in Nat
          /\ document[q].actions[t] \in Nat /\ document'[q].actions[t] \in Nat /\ l \in Nat
      BY <1>1, <1>2 DEF TruthInv, FileBehind, LevelsOK, Levels
    <3>2. document[q].actions[t] <= document'[q].actions[t]
      BY <2>2, <3>1 DEF Larger
    <3>3. disk'[q].actions[t] \in {disk[q].actions[t], document'[q].actions[t]}
      BY <1>6
    <3>4. QED
      BY <3>1, <3>2, <3>3
  <2>4. Truthful'
    <3> SUFFICES ASSUME NEW q \in Profiles, NEW t \in Targets, document'[q].actions[t] # 0
                 PROVE  \E d \in Generations : of[d] = q /\ document'[q].actions[t] <= applied[d][t]
      BY <1>3 DEF Truthful
    <3>1. CASE document'[q].actions[t] = document[q].actions[t]
      BY <3>1 DEF TruthInv, Truthful
    <3>2. CASE q = p /\ t = u /\ document'[q].actions[t] = l
      BY <1>3, <3>2 DEF TruthInv, OrderInv
    <3>3. QED
      BY <2>2, <3>1, <3>2 DEF Larger
  <2>5. QED
    BY <1>4, <2>3, <2>4 DEF TruthInv
<1>7. QED
  BY <1>5, <1>6 DEF Journal, TryWrite

\* Every step keeps memory and file truthful.
LEMMA TruthStep ==
  ASSUME IndInv, TypeOK', TruthInv, Next
  PROVE  TruthInv'
<1>0. LevelsOK /\ LevelsOK' /\ TypeOK
  BY LevelTypes, LevelTypesNext DEF IndInv
<1>1. ASSUME UNCHANGED <<journal, workers>> PROVE TruthInv'
  BY <1>1 DEF journal, workers, TruthInv, FileBehind, Truthful, OrderInv
<1>2. ASSUME NEW g \in Generations, ApplyControl(g) \/ ApplyScope(g) PROVE TruthInv'
  <2>1. PICK d \in Decisions : Apply(g, d[1], d[2])
    BY <1>2 DEF ApplyControl, ApplyScope
  <2>2. d[1] \in Targets /\ d[2] \in Levels
    BY JournalAssumption DEF Targets, Levels
  <2>3. QED
    BY <2>1, <2>2, ApplyTruth
<1>3. ASSUME NEW g \in Generations, Finish(g) PROVE TruthInv'
  <2> DEFINE p == of[g]
  <2>1. p \in Profiles /\ document[p] \in Records
    BY <1>3 DEF Finish, IndInv, WorkerInv, TypeOK
  <2>2. \A q \in Profiles : document'[q].actions = document[q].actions
    <3> DEFINE b == p \in unsettled
               r == Settled(document[p], b)
    <3>1. CASE document' = [document EXCEPT ![p] = r]
      <4>1. b \in BOOLEAN
        OBVIOUS
      <4> HIDE DEF b
      <4>2. r \in Records /\ r.actions = document[p].actions
        BY <2>1, <4>1, SettledFacts
      <4> HIDE DEF r, p
      <4>3. QED
        BY <1>0, <2>1, <3>1, <4>2, SameActions
    <3>2. QED
      BY <1>3, <3>1 DEF Finish
  <2>3. disk' \in {disk, document'}
    BY <1>3 DEF Finish, TryWrite
  <2>4. \A d \in Generations : pc'[d] \in {"journal", "new"} => pc'[d] = pc[d]
    BY <1>0, <1>3 DEF Finish, TypeOK
  <2>5. QED
    BY <1>0, <1>3, <2>2, <2>3, <2>4, TruthSame DEF Finish
<1>4. ASSUME NEW e \in Expiries, profile # Nobody, UNCHANGED workers,
             \/ UNCHANGED <<document, disk>>
             \/ document' = [document EXCEPT ![profile] = Extended(@, e)] /\ disk' = document'
      PROVE  TruthInv'
  <2>1. profile \in Profiles /\ document[profile] \in Records
    BY <1>0, <1>4 DEF TypeOK
  <2>2. \A q \in Profiles : document'[q].actions = document[q].actions
    <3>1. CASE document' = [document EXCEPT ![profile] = Extended(document[profile], e)]
      BY <1>0, <2>1, <3>1, ExtendedFacts, SameActions
    <3>2. QED
      BY <1>4, <3>1
  <2>3. QED
    BY <1>0, <1>4, <2>2, TruthSame DEF workers
<1>5. ASSUME NEW s \in Scopes, NEW e \in Expiries, NEW late \in BOOLEAN, HostRenew(s, e, late)
      PROVE  TruthInv'
  BY <1>4, <1>5 DEF HostRenew
<1>6. ASSUME NEW g \in Generations, NEW s \in Scopes, NEW e \in Expiries, NEW late \in BOOLEAN,
             SignedRenew(g, s, e, late)
      PROVE  TruthInv'
  BY <1>4, <1>6 DEF SignedRenew
<1>7. CASE ReadRestrictions
  BY <1>0, <1>7, TruthSame DEF ReadRestrictions, workers
<1>8. CASE Acknowledge
  <2>1. UNCHANGED workers /\ disk' = document'
    BY <1>8 DEF Acknowledge
  <2>2. \A q \in Profiles : document'[q] \in {document[q], NoRecord}
    BY <1>8 DEF Acknowledge, LiveRecords
  <2>3. \A q \in Profiles, t \in Targets : document'[q].actions[t] <= document[q].actions[t]
    BY <1>0, <2>2, NoRecordFacts DEF LevelsOK
  <2>4. Truthful'
    <3>1. \A g \in Generations, t \in Targets : applied[g][t] <= applied'[g][t]
      BY <1>0, <2>1 DEF LevelsOK, workers
    <3>2. QED
      BY <1>0, <2>1, <2>3, <3>1, TruthfulKept DEF TruthInv, workers
  <2>5. FileBehind' /\ OrderInv'
    BY <1>0, <2>1 DEF FileBehind, OrderInv, TruthInv, LevelsOK, workers
  <2>6. QED
    BY <2>4, <2>5 DEF TruthInv
<1>9. CASE Crash
  <2>1. /\ document' = disk /\ UNCHANGED <<disk, of, applied>>
        /\ \A g \in Generations : pc'[g] # "journal" /\ (pc'[g] = "new" => pc[g] = "new")
    BY <1>9 DEF Crash
  <2>2. FileBehind'
    BY <1>0, <2>1 DEF FileBehind, LevelsOK
  <2>3. Truthful'
    <3>1. \A g \in Generations, t \in Targets : applied[g][t] <= applied'[g][t]
      BY <1>0, <2>1 DEF LevelsOK
    <3>2. \A q \in Profiles, t \in Targets : document'[q].actions[t] <= document[q].actions[t]
      BY <2>1 DEF TruthInv, FileBehind
    <3>3. QED
      BY <1>0, <2>1, <3>1, <3>2, TruthfulKept DEF TruthInv
  <2>4. OrderInv'
    BY <2>1 DEF OrderInv, TruthInv
  <2>5. QED
    BY <2>2, <2>3, <2>4 DEF TruthInv
<1>10. QED
  BY <1>0, <1>1, <1>2, <1>3, <1>5, <1>6, <1>7, <1>8, <1>9, ConfigureTruth, JournalTruth
  DEF Next, StartInstance, StopInstance, HostRevokes

-----------------------------------------------------------------------------
\* What the mapping makes of the levels.
LEMMA KeptLevels ==
  ASSUME NEW p \in Profiles, NEW t \in Targets
  PROVE  Kept[p][t] = Larger(ledger[p][t], disk[p].actions[t])
  BY DEF Kept

\* The same after a step.
LEMMA KeptLevelsNext ==
  ASSUME NEW p \in Profiles, NEW t \in Targets
  PROVE  Kept'[p][t] = Larger(ledger'[p][t], disk'[p].actions[t])
  BY DEF Kept

\* NoRestrictionForgotten is the invariant of the abstract specification.
LEMMA KnownOrMarked == IndInv => Durable!NothingForgotten
<1> SUFFICES ASSUME IndInv, NEW g \in Generations, g \notin Marked, NEW t \in Targets,
                    applied[g][t] # 0
             PROVE  applied[g][t] <= Kept[of[g]][t]
  BY DEF Durable!NothingForgotten, Durable!Told
<1>1. of[g] \in Profiles /\ LevelsOK
  BY LevelTypes DEF IndInv, WorkerInv
<1>2. applied[g][t] <= ledger[of[g]][t] \/ applied[g][t] <= disk[of[g]].actions[t]
  BY <1>1 DEF IndInv, NoRestrictionForgotten, HandedBack, Recorded, Marked
<1>3. /\ applied[g][t] \in Nat /\ ledger[of[g]][t] \in Nat
      /\ disk[of[g]].actions[t] \in Nat
  BY <1>1 DEF LevelsOK
<1>4. QED
  BY <1>1, <1>2, <1>3, KeptLevels DEF Larger

\* So a worker loses its mark only when all it applied is known.
LEMMA MarksReleased == ASSUME IndInv' PROVE Durable!Releases
<1>1. (IndInv => Durable!NothingForgotten)'
  BY KnownOrMarked, PTL
<1>2. QED
  BY <1>1 DEF Durable!NothingForgotten, Durable!Releases, Marked

\* Knowledge that does not shrink and that memory tells of is learnt.
LEMMA Learning ==
  ASSUME TypeOK, TypeOK', TruthInv',
         \A p \in Profiles, t \in Targets :
            /\ Kept[p][t] <= Kept'[p][t]
            /\ Kept'[p][t] = Kept[p][t] \/ Kept'[p][t] <= document'[p].actions[t]
  PROVE  Durable!Learns
<1> SUFFICES ASSUME NEW p \in Profiles, NEW t \in Targets, Kept'[p][t] # Kept[p][t]
             PROVE  /\ Kept[p][t] < Kept'[p][t]
                    /\ \E g \in Generations : of'[g] = p /\ Kept'[p][t] <= applied'[g][t]
  BY DEF Durable!Learns
<1>1. LevelsOK /\ LevelsOK'
  BY LevelTypes, LevelTypesNext
<1>2. Kept[p][t] \in Nat /\ Kept'[p][t] \in Nat /\ document'[p].actions[t] \in Nat
  BY <1>1, KeptLevels, KeptLevelsNext DEF LevelsOK, Larger
<1>3. Kept[p][t] < Kept'[p][t] /\ document'[p].actions[t] # 0
  BY <1>2
<1>4. PICK g \in Generations : of'[g] = p /\ document'[p].actions[t] <= applied'[g][t]
  BY <1>3 DEF TruthInv, Truthful
<1>5. applied'[g][t] \in Nat
  BY <1>1 DEF LevelsOK
<1>6. Kept'[p][t] <= applied'[g][t]
  BY <1>2, <1>3, <1>4, <1>5
<1>7. QED
  BY <1>3, <1>4, <1>6

\* The file may change as it likes while what it forgets is in the ledger.
LEMMA LearningByFile ==
  ASSUME TypeOK, TypeOK', TruthInv', UNCHANGED ledger,
         \A p \in Profiles, t \in Targets :
            disk[p].actions[t] <= ledger[p][t] \/ disk[p].actions[t] <= disk'[p].actions[t]
  PROVE  Durable!Learns
<1>1. ASSUME NEW p \in Profiles, NEW t \in Targets
      PROVE  /\ Kept[p][t] <= Kept'[p][t]
             /\ Kept'[p][t] = Kept[p][t] \/ Kept'[p][t] <= document'[p].actions[t]
  <2>1. LevelsOK /\ LevelsOK'
    BY LevelTypes, LevelTypesNext
  <2>2. /\ ledger[p][t] \in Nat /\ disk[p].actions[t] \in Nat /\ disk'[p].actions[t] \in Nat
        /\ document'[p].actions[t] \in Nat /\ ledger'[p][t] = ledger[p][t]
        /\ disk'[p].actions[t] <= document'[p].actions[t]
    BY <2>1 DEF LevelsOK, TruthInv, FileBehind
  <2>3. /\ Kept[p][t] = Larger(ledger[p][t], disk[p].actions[t])
        /\ Kept'[p][t] = Larger(ledger[p][t], disk'[p].actions[t])
    BY <2>2, KeptLevels, KeptLevelsNext
  <2>4. QED
    BY <2>2, <2>3 DEF Larger
<1>2. QED
  BY <1>1, Learning

\* No mark is set by a file whose pending records were pending before.
LEMMA MarksKept ==
  ASSUME UNCHANGED uncertain,
         \A p \in Profiles : disk'[p].pending =>
            disk[p].pending /\ disk'[p].generation = disk[p].generation
  PROVE  Marked' \subseteq Marked
  BY DEF Marked

-----------------------------------------------------------------------------
\* A write of memory or of what a step left of it: a settlement.
LEMMA WriteSettles ==
  ASSUME IndInv, IndInv', TruthInv, TruthInv', UNCHANGED <<of, applied, ledger, uncertain>>,
         \A p \in Profiles, t \in Targets :
            disk[p].actions[t] <= ledger[p][t] \/ disk[p].actions[t] <= disk'[p].actions[t],
         \A p \in Profiles : disk'[p].pending =>
            disk[p].pending /\ disk'[p].generation = disk[p].generation
  PROVE  Durable!Settle
<1>1. Durable!Learns
  BY LearningByFile DEF IndInv
<1>2. Marked' \subseteq Marked
  BY MarksKept
<1>3. QED
  BY <1>1, <1>2, MarksReleased DEF Durable!Settle

\* The same for the steps that edit one record in memory.
LEMMA EditSettles ==
  ASSUME IndInv, IndInv', TruthInv, TruthInv', UNCHANGED <<of, applied, ledger, uncertain>>,
         NEW p \in Profiles, NEW r \in Records, document' = [document EXCEPT ![p] = r],
         disk' \in {disk, document'}, r.generation = document[p].generation,
         r.pending => disk[p].pending,
         \A t \in Targets : document[p].actions[t] <= r.actions[t]
  PROVE  Durable!Settle
<1>1. LevelsOK /\ LevelsOK' /\ document \in [Profiles -> Records] /\ FileInv /\ FileBehind
  BY LevelTypes, LevelTypesNext DEF IndInv, TypeOK, TruthInv
<1>2. document'[p] = r /\ \A q \in Profiles \ {p} : document'[q] = document[q]
  BY <1>1
<1>3. ASSUME NEW q \in Profiles, NEW t \in Targets PROVE disk[q].actions[t] <= disk'[q].actions[t]
  <2>1. /\ disk[q].actions[t] \in Nat /\ document[q].actions[t] \in Nat
        /\ document'[q].actions[t] \in Nat /\ disk[q].actions[t] <= document[q].actions[t]
    BY <1>1 DEF LevelsOK, FileBehind
  <2>2. document[q].actions[t] <= document'[q].actions[t]
    BY <1>2, <2>1
  <2>3. disk'[q].actions[t] \in {disk[q].actions[t], document'[q].actions[t]}
    OBVIOUS
  <2>4. QED
    BY <2>1, <2>2, <2>3
<1>4. ASSUME NEW q \in Profiles, disk'[q].pending
      PROVE  disk[q].pending /\ disk'[q].generation = disk[q].generation
  <2>1. CASE disk' = disk
    BY <1>4, <2>1
  <2>2. CASE disk' = document'
    BY <1>1, <1>2, <1>4, <2>2 DEF FileInv
  <2>3. QED
    BY <2>1, <2>2
<1>5. QED
  BY <1>3, <1>4, WriteSettles

\* begin marks the worker on disk before it can apply anything.
LEMMA ConfigureEnlists ==
  ASSUME IndInv, IndInv', TruthInv, TruthInv', NEW g \in Generations, Configure(g)
  PROVE  Durable!Enlist(g, profile) /\ profile \in Profiles
<1>1. profile \in Profiles /\ document[profile] \in Records /\ bound \in Expiries
  BY DEF Configure, IndInv, TypeOK
<1> DEFINE r == Begun(document[profile], g, bound)
<1>2. r \in Records /\ r.generation = g /\ r.pending /\ r.actions = document[profile].actions
  BY <1>1, BegunFacts
<1>3. /\ document' = [document EXCEPT ![profile] = r] /\ disk' = document'
      /\ of' = [of EXCEPT ![g] = profile] /\ of[g] = Nobody
      /\ UNCHANGED <<applied, ledger, uncertain>>
  BY DEF Configure, client, TruthInv, OrderInv
<1> HIDE DEF r
<1>4. LevelsOK /\ LevelsOK' /\ document \in [Profiles -> Records] /\ FileInv /\ FileBehind
  BY LevelTypes, LevelTypesNext DEF IndInv, TypeOK, TruthInv
<1>5. document'[profile] = r /\ \A q \in Profiles \ {profile} : document'[q] = document[q]
  BY <1>1, <1>3, <1>4
<1>6. Durable!Learns
  <2>1. \A q \in Profiles : document'[q].actions = document[q].actions
    BY <1>2, <1>5
  <2>2. \A q \in Profiles, t \in Targets : disk[q].actions[t] <= disk'[q].actions[t]
    BY <1>3, <1>4, <2>1 DEF FileBehind
  <2>3. QED
    BY <1>3, <2>2, LearningByFile DEF IndInv
<1>7. g \in Marked'
  BY <1>1, <1>2, <1>3, <1>5 DEF Marked
<1>8. Marked' \subseteq Marked \cup {g}
  <2> SUFFICES ASSUME NEW d \in Generations, d \in Marked', d # g PROVE d \in Marked
    BY DEF Marked
  <2>1. CASE d \in uncertain
    BY <2>1 DEF Marked
  <2>2. CASE \E q \in Profiles : disk'[q].pending /\ disk'[q].generation = d
    <3>1. PICK q \in Profiles : disk'[q].pending /\ disk'[q].generation = d
      BY <2>2
    <3>2. q # profile
      BY <1>2, <1>3, <1>5, <3>1
    <3>3. disk[q].pending /\ disk[q].generation = d
      BY <1>3, <1>4, <1>5, <3>1, <3>2 DEF FileInv
    <3>4. QED
      BY <3>3 DEF Marked
  <2>3. QED
    BY <1>3, <2>1, <2>2 DEF Marked
<1>9. QED
  BY <1>1, <1>3, <1>6, <1>7, <1>8, MarksReleased DEF Durable!Enlist

\* A worker that applies a decision is marked on disk.
LEMMA ApplyMarked ==
  ASSUME IndInv, NEW g \in Generations, NEW t \in Targets, NEW level \in Levels, Apply(g, t, level)
  PROVE  \E l \in Levels : Durable!Apply(g, t, l)
<1>1. g \in Marked
  <2>1. control = g /\ pc[g] = "poll" /\ g # Nobody
    BY JournalAssumption DEF Apply
  <2>2. profile \in Profiles /\ live[profile] = g
    BY <2>1 DEF Apply, IndInv, WorkerInv, TypeOK
  <2>3. disk[profile].pending /\ disk[profile].generation = g
    BY <2>1, <2>2 DEF IndInv, LiveInv, FileInv
  <2>4. QED
    BY <2>2, <2>3 DEF Marked
<1> DEFINE l == Larger(applied[g][t], level)
<1>2. applied[g][t] \in Levels
  BY DEF IndInv, TypeOK
<1>3. l \in Levels /\ applied[g][t] <= l
  BY <1>2, RangeFacts
<1>4. applied' = [applied EXCEPT ![g][t] = l]
  BY DEF Apply
<1>5. UNCHANGED <<of, ledger, uncertain, disk>>
  BY DEF Apply, journal, client
<1>6. UNCHANGED Kept /\ UNCHANGED Marked
  BY <1>5 DEF Kept, Marked
<1> HIDE DEF l
<1>7. QED
  BY <1>1, <1>3, <1>4, <1>5, <1>6 DEF Durable!Apply

\* The client's read makes all that memory tells of known.
LEMMA ReadSettles ==
  ASSUME IndInv, IndInv', TruthInv, TruthInv', ReadRestrictions
  PROVE  Durable!Settle
<1>1. LevelsOK /\ LevelsOK' /\ FileInv /\ FileBehind
  BY LevelTypes, LevelTypesNext DEF IndInv, TruthInv
<1>2. disk' = document /\ UNCHANGED <<document, of, applied>>
  BY DEF ReadRestrictions, workers
<1>3. ASSUME NEW p \in Profiles, NEW t \in Targets
      PROVE  /\ Kept[p][t] <= Kept'[p][t]
             /\ Kept'[p][t] = Kept[p][t] \/ Kept'[p][t] <= document'[p].actions[t]
  <2>1. /\ ledger[p][t] \in Nat /\ disk[p].actions[t] \in Nat /\ document[p].actions[t] \in Nat
        /\ disk[p].actions[t] <= document[p].actions[t]
    BY <1>1 DEF LevelsOK, FileBehind
  <2>2. ledger'[p][t] = Larger(ledger[p][t], document[p].actions[t])
    BY DEF ReadRestrictions, Retain
  <2>3. /\ Kept[p][t] = Larger(ledger[p][t], disk[p].actions[t])
        /\ Kept'[p][t] = Larger(ledger'[p][t], document[p].actions[t])
    BY <1>2, KeptLevels, KeptLevelsNext
  <2>4. QED
    BY <1>2, <2>1, <2>2, <2>3 DEF Larger
<1>4. Durable!Learns
  BY <1>3, Learning DEF IndInv
<1>5. Marked' \subseteq Marked
  <2> SUFFICES ASSUME NEW d \in Generations, d \in Marked' PROVE d \in Marked
    BY DEF Marked
  <2>1. ASSUME NEW q \in Profiles, document[q].pending, document[q].generation = d PROVE d \in Marked
    BY <1>1, <2>1 DEF FileInv, Marked
  <2>2. d \in uncertain' \/ \E q \in Profiles : document[q].pending /\ document[q].generation = d
    BY <1>2 DEF Marked
  <2>3. d \in uncertain' => d \in uncertain \/ \E q \in Profiles : document[q].pending /\ document[q].generation = d
    BY DEF ReadRestrictions, Present
  <2>4. d \in uncertain => d \in Marked
    BY DEF Marked
  <2>5. QED
    BY <2>1, <2>2, <2>3, <2>4
<1>6. QED
  BY <1>2, <1>4, <1>5, MarksReleased DEF Durable!Settle

\* What an acknowledgement drops from the file is in the client's ledger.
LEMMA AcknowledgeSettles ==
  ASSUME IndInv, IndInv', TruthInv, TruthInv', Acknowledge
  PROVE  Durable!Settle
<1>1. LevelsOK /\ LevelsOK' /\ FileInv /\ FileBehind /\ SnapshotInv
  BY LevelTypes, LevelTypesNext DEF IndInv, TruthInv
<1>2. UNCHANGED <<of, applied, ledger, uncertain>>
  BY DEF Acknowledge, workers, client
<1>3. CASE disk' = document
  <2>1. \A p \in Profiles, t \in Targets : disk[p].actions[t] <= disk'[p].actions[t]
    BY <1>1, <1>3 DEF FileBehind
  <2>2. \A p \in Profiles : disk'[p].pending =>
           disk[p].pending /\ disk'[p].generation = disk[p].generation
    BY <1>1, <1>3 DEF FileInv
  <2>3. QED
    BY <1>2, <2>1, <2>2, WriteSettles
<1>4. CASE snapshot = View /\ disk' = LiveRecords
  <2>1. ASSUME NEW p \in Profiles, NEW t \in Targets PROVE disk[p].actions[t] <= ledger[p][t]
    <3>1. document[p].actions[t] <= ledger[p][t]
      BY <1>1, <1>4 DEF SnapshotInv, View
    <3>2. /\ disk[p].actions[t] <= document[p].actions[t] /\ disk[p].actions[t] \in Nat
          /\ document[p].actions[t] \in Nat /\ ledger[p][t] \in Nat
      BY <1>1 DEF FileBehind, LevelsOK
    <3>3. QED
      BY <3>1, <3>2
  <2>2. \A p \in Profiles : disk'[p] \in {document[p], NoRecord}
    BY <1>4 DEF LiveRecords
  <2>3. \A p \in Profiles : disk'[p].pending =>
           disk[p].pending /\ disk'[p].generation = disk[p].generation
    BY <1>1, <2>2, NoRecordFacts DEF FileInv
  <2>4. QED
    BY <1>2, <2>1, <2>3, WriteSettles
<1>5. QED
  BY <1>3, <1>4 DEF Acknowledge

\* A step that leaves the file, the ledger and the workers' deeds alone.
LEMMA DurableStutter ==
  ASSUME UNCHANGED <<of, applied, ledger, uncertain, disk>>
  PROVE  UNCHANGED Durable!durable
  BY DEF Durable!durable, Kept, Marked

\* restrict tightens the record of its own worker, on disk or in memory only.
LEMMA JournalSettles ==
  ASSUME IndInv, IndInv', TruthInv, TruthInv', NEW g \in Generations, Journal(g)
  PROVE  Durable!Settle \/ UNCHANGED Durable!durable
<1> DEFINE p == of[g]
           r == Tightened(document[p], order.target, order.level)
<1>1. UNCHANGED <<of, applied, ledger, uncertain>> /\ pc[g] = "journal"
  BY DEF Journal, client
<1>2. CASE UNCHANGED <<document, disk>>
  BY <1>1, <1>2, DurableStutter
<1>3. CASE document' = [document EXCEPT ![p] = r] /\ disk' \in {disk, document'}
  <2>1. /\ p \in Profiles /\ document[p] \in Records
        /\ order.target \in Targets /\ order.level \in Levels
    BY <1>1 DEF IndInv, WorkerInv, TypeOK
  <2>2. /\ r \in Records /\ r.generation = document[p].generation /\ r.pending = document[p].pending
        /\ r.actions[order.target] = Larger(document[p].actions[order.target], order.level)
        /\ \A t \in Targets \ {order.target} : r.actions[t] = document[p].actions[t]
    BY <2>1, TightenedFacts
  <2> HIDE DEF r, p
  <2>3. ASSUME NEW t \in Targets PROVE document[p].actions[t] <= r.actions[t]
    <3>1. document[p].actions[t] \in Levels
      BY <2>1, RecordFields
    <3>2. CASE t = order.target
      BY <2>1, <2>2, <3>1, <3>2, RangeFacts
    <3>3. CASE t # order.target
      BY <2>2, <3>1, <3>3 DEF Levels
    <3>4. QED
      BY <3>2, <3>3
  <2>4. r.pending => disk[p].pending
    BY <2>1, <2>2 DEF IndInv, FileInv
  <2>5. QED
    BY <1>1, <1>3, <2>1, <2>2, <2>3, <2>4, EditSettles
<1>4. QED
  BY <1>2, <1>3 DEF Journal, TryWrite

\* finish takes the mark of its own worker off, once all is written.
LEMMA FinishSettles ==
  ASSUME IndInv, IndInv', TruthInv, TruthInv', NEW g \in Generations, Finish(g)
  PROVE  Durable!Settle \/ UNCHANGED Durable!durable
<1> DEFINE p == of[g]
           b == p \in unsettled
           r == Settled(document[p], b)
<1>1. UNCHANGED <<of, applied, ledger, uncertain>> /\ pc[g] = "poll"
  BY DEF Finish, client
<1>2. CASE UNCHANGED <<document, disk>>
  BY <1>1, <1>2, DurableStutter
<1>3. CASE live[p] = g /\ document' = [document EXCEPT ![p] = r] /\ disk' \in {disk, document'}
  <2>1. p \in Profiles /\ document[p] \in Records /\ b \in BOOLEAN
    BY <1>1 DEF IndInv, WorkerInv, TypeOK
  <2> HIDE DEF b
  <2>2. r \in Records /\ r.generation = document[p].generation /\ r.actions = document[p].actions
    BY <2>1, SettledFacts
  <2> HIDE DEF r, p
  <2>3. disk[p].pending
    BY <1>3, <2>1, JournalAssumption DEF IndInv, LiveInv, FileInv
  <2>4. \A t \in Targets : document[p].actions[t] <= r.actions[t]
    BY <2>1, <2>2, LevelTypes DEF IndInv, LevelsOK
  <2>5. QED
    BY <1>1, <1>3, <2>1, <2>2, <2>3, <2>4, EditSettles
<1>4. QED
  BY <1>2, <1>3 DEF Finish, TryWrite

\* A renewal extends the record and touches no restriction.
LEMMA RenewalSettles ==
  ASSUME IndInv, IndInv', TruthInv, TruthInv', profile # Nobody, NEW e \in Expiries,
         UNCHANGED <<workers, client>>,
         \/ UNCHANGED <<document, disk>>
         \/ document' = [document EXCEPT ![profile] = Extended(@, e)] /\ disk' = document'
  PROVE  Durable!Settle \/ UNCHANGED Durable!durable
<1> DEFINE r == Extended(document[profile], e)
<1>1. UNCHANGED <<of, applied, ledger, uncertain>>
  BY DEF workers, client
<1>2. CASE UNCHANGED <<document, disk>>
  BY <1>1, <1>2, DurableStutter
<1>3. CASE document' = [document EXCEPT ![profile] = r] /\ disk' = document'
  <2>1. profile \in Profiles /\ document[profile] \in Records
    BY DEF IndInv, TypeOK
  <2>2. /\ r \in Records /\ r.generation = document[profile].generation
        /\ r.pending = document[profile].pending /\ r.actions = document[profile].actions
    BY <2>1, ExtendedFacts
  <2> HIDE DEF r
  <2>3. r.pending => disk[profile].pending
    BY <2>1, <2>2 DEF IndInv, FileInv
  <2>4. \A t \in Targets : document[profile].actions[t] <= r.actions[t]
    BY <2>1, <2>2, LevelTypes DEF IndInv, LevelsOK
  <2>5. QED
    BY <1>1, <1>3, <2>1, <2>2, <2>3, <2>4, EditSettles
<1>4. QED
  BY <1>2, <1>3

\* Every step of the journal is a step of the abstract specification.
LEMMA DurableStep ==
  ASSUME IndInv, IndInv', TruthInv, TruthInv', Next
  PROVE  [Durable!Next]_(Durable!durable)
<1> DEFINE Simulated == Durable!Next \/ UNCHANGED Durable!durable
<1>1. Durable!Settle \/ UNCHANGED Durable!durable => Simulated
  BY DEF Durable!Next
<1>2. ASSUME UNCHANGED <<journal, workers, client>> PROVE Simulated
  BY <1>2, DurableStutter DEF journal, workers, client
<1>3. ASSUME NEW g \in Generations, Configure(g) PROVE Simulated
  BY <1>3, ConfigureEnlists DEF Durable!Next
<1>4. ASSUME NEW g \in Generations, ApplyControl(g) \/ ApplyScope(g) PROVE Simulated
  <2>1. PICK d \in Decisions : Apply(g, d[1], d[2])
    BY <1>4 DEF ApplyControl, ApplyScope
  <2>2. d[1] \in Targets /\ d[2] \in Levels
    BY JournalAssumption DEF Targets, Levels
  <2>3. QED
    BY <2>1, <2>2, ApplyMarked DEF Durable!Next
<1>5. ASSUME NEW g \in Generations, Journal(g) \/ Finish(g) PROVE Simulated
  BY <1>1, <1>5, JournalSettles, FinishSettles
<1>6. ASSUME NEW s \in Scopes, NEW e \in Expiries, NEW late \in BOOLEAN, HostRenew(s, e, late)
      PROVE  Simulated
  BY <1>1, <1>6, RenewalSettles DEF HostRenew
<1>7. ASSUME NEW g \in Generations, NEW s \in Scopes, NEW e \in Expiries, NEW late \in BOOLEAN,
             SignedRenew(g, s, e, late)
      PROVE  Simulated
  BY <1>1, <1>7, RenewalSettles DEF SignedRenew
<1>8. CASE ReadRestrictions \/ Acknowledge
  BY <1>1, <1>8, ReadSettles, AcknowledgeSettles
<1>9. CASE Crash
  BY <1>9, DurableStutter DEF Crash, client
<1>10. Simulated
  BY <1>2, <1>3, <1>4, <1>5, <1>6, <1>7, <1>8, <1>9
  DEF Next, StartInstance, StopInstance, HostRevokes
<1>11. QED
  BY <1>10

\* The empty journal knows nothing and marks nobody.
LEMMA InitDurable == Init => Durable!Init /\ TruthInv
<1> SUFFICES ASSUME Init PROVE Durable!Init /\ TruthInv
  OBVIOUS
<1>1. \A p \in Profiles : disk[p] = NoRecord /\ document[p] = NoRecord
  BY DEF Init, Empty
<1>2. \A p \in Profiles, t \in Targets :
         disk[p].actions[t] = 0 /\ document[p].actions[t] = 0 /\ ledger[p][t] = 0
  BY <1>1, NoRecordFacts DEF Init
<1>3. TruthInv
  BY <1>2 DEF Init, TruthInv, FileBehind, Truthful, OrderInv
<1>4. Kept = [p \in Profiles |-> [t \in Targets |-> 0]]
  BY <1>2 DEF Kept, Larger
<1>5. Marked = {}
  BY <1>1, NoRecordFacts DEF Init, Marked
<1>6. QED
  BY <1>3, <1>4, <1>5 DEF Init, NoActions, Durable!Init

\* Memory and the file stay truthful.
LEMMA TruthInvariance == Spec => []TruthInv
<1>1. IndInv /\ IndInv' /\ TruthInv /\ [Next]_vars => TruthInv'
  <2>1. ASSUME IndInv, IndInv', TruthInv, Next PROVE TruthInv'
    BY <2>1, TruthStep DEF IndInv
  <2>2. ASSUME TruthInv, UNCHANGED vars PROVE TruthInv'
    BY <2>2 DEF vars, journal, workers, TruthInv, FileBehind, Truthful, OrderInv
  <2>3. QED
    BY <2>1, <2>2
<1>2. QED
  BY <1>1, InitDurable, Invariance, PTL DEF Spec

\* smart_access_restriction_store.go implements the durable restrictions that
\* its callers rely on: over any order of crashes, failed writes, replaced
\* workers, reads and acknowledgements, file and ledger together never lose a
\* level, never tell of one that no worker applied, and take a worker's mark
\* away only when all it did is told.
THEOREM ImplementsDurable == Spec => Durable!Spec
<1>1. Init => Durable!Init
  BY InitDurable
<1>2. IndInv /\ IndInv' /\ TruthInv /\ TruthInv' /\ [Next]_vars => [Durable!Next]_(Durable!durable)
  <2>1. ASSUME IndInv, IndInv', TruthInv, TruthInv', Next PROVE [Durable!Next]_(Durable!durable)
    BY <2>1, DurableStep
  <2>2. ASSUME UNCHANGED vars PROVE UNCHANGED Durable!durable
    BY <2>2, DurableStutter DEF vars, journal, workers, client
  <2>3. QED
    BY <2>1, <2>2
<1>3. QED
  BY <1>1, <1>2, Invariance, TruthInvariance, PTL DEF Spec, Durable!Spec

\* What the client will read back is never made up: whatever record is in
\* memory or in the file, some worker of its profile applied a restriction of
\* that level or above to the running engine.
THEOREM NothingMadeUp == Spec => [](Truthful /\ FileBehind)
<1>1. TruthInv => Truthful /\ FileBehind
  BY DEF TruthInv
<1>2. QED
  BY <1>1, TruthInvariance, PTL
=============================================================================
