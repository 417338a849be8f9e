------------------------ MODULE PersistedState_proofs ------------------------
(***************************************************************************)
(* Proofs about PersistedState, for any hosts, values and requests: the    *)
(* guard that is kept across a save makes the saves that are awaited write *)
(* the current map, however many others were left behind by hang-ups.      *)
(***************************************************************************)
EXTENDS PersistedState, TLAPS

----------------------------------------------------------------------------
(* The inductive invariant.                                                *)

\* One handler at a time holds the guard.
OneSaving == \A g, h \in Handlers : pc[g] = "saving" /\ pc[h] = "saving" => g = h

\* A save that found no other one running has the file for itself until its
\* handler lets the guard go, since nobody starts a save without the guard.
AloneStays ==
    \A h \in Handlers : pc[h] = "saving" /\ job[h].alone =>
        /\ \A g \in Handlers \ {h} : ~Running(g)
        /\ ~job[h].mixed

IInv == TypeOK /\ OneSaving /\ SavesCurrent /\ AloneStays /\ AloneSaveLands

LEMMA NoJobType == NoJob \in Jobs /\ ~NoJob.alone /\ NoJob.stage = "none"
  BY KeysAssumption DEF NoJob, Jobs, Maps, EmptyMap

LEMMA InitInv == Init => IInv
  BY NoJobType
     DEF Init, Load, EmptyMap, Maps, IInv, TypeOK, OneSaving, SavesCurrent, AloneStays,
         AloneSaveLands

----------------------------------------------------------------------------
(* One lemma per action.                                                   *)

LEMMA ChangeInv ==
    ASSUME IInv, NEW h \in Handlers, NEW k \in Keys, NEW v \in Vals \cup {NoVal}, Change(h, k, v)
    PROVE  IInv'
  <1> DEFINE new == [stage |-> "queued", data |-> mem', key |-> k, mixed |-> FALSE,
                     alone |-> \A g \in Handlers : ~Running(g)]
  <1>1. mem' \in Maps
    BY DEF Change, IInv, TypeOK, Maps
  <1>2. new \in Jobs
    BY <1>1 DEF Jobs
  <1>3. /\ job' = [job EXCEPT ![h] = new]
        /\ pc' = [pc EXCEPT ![h] = "saving"]
        /\ \A g \in Handlers : pc[g] # "saving"
    BY DEF Change, Locked
  <1>4. TypeOK'
    BY <1>1, <1>2, <1>3 DEF Change, IInv, TypeOK
  <1>5. /\ job'[h] = new
        /\ \A g \in Handlers \ {h} : job'[g] = job[g] /\ pc'[g] # "saving"
    BY <1>3 DEF IInv, TypeOK
  <1>6. OneSaving' /\ SavesCurrent' /\ AloneSaveLands'
    BY <1>5 DEF OneSaving, SavesCurrent, AloneSaveLands
  <1>7. AloneStays'
    BY <1>5 DEF AloneStays, Running
  <1>8. QED
    BY <1>4, <1>6, <1>7 DEF IInv

LEMMA TruncateInv ==
    ASSUME IInv, NEW h \in Handlers, Truncate(h)
    PROVE  IInv'
  <1>1. TypeOK'
    BY DEF Truncate, IInv, TypeOK, Jobs
  <1>2. /\ pc' = pc /\ mem' = mem /\ disk' = Torn
        /\ job'[h] = [job[h] EXCEPT !.stage = "truncated"]
        /\ \A g \in Handlers \ {h} : job'[g] = job[g]
        /\ Running(h)
    BY DEF Truncate, IInv, TypeOK, Running
  <1>3. OneSaving' /\ SavesCurrent'
    BY <1>2 DEF IInv, TypeOK, Jobs, OneSaving, SavesCurrent, Running
  <1>4. AloneStays'
    BY <1>2 DEF IInv, TypeOK, Jobs, AloneStays, Running
  <1>5. AloneSaveLands'
    BY <1>2 DEF IInv, TypeOK, Jobs, AloneStays, AloneSaveLands, Running
  <1>6. QED
    BY <1>1, <1>3, <1>4, <1>5 DEF IInv

LEMMA WriteDataInv ==
    ASSUME IInv, NEW h \in Handlers, WriteData(h)
    PROVE  IInv'
  <1>1. /\ pc' = pc /\ mem' = mem /\ UNCHANGED durable
        /\ job[h].stage = "truncated" /\ Running(h)
        /\ disk' \in {job[h].data} \cup (IF job[h].mixed THEN {Torn} ELSE {})
        /\ job'[h] = [job[h] EXCEPT !.stage = "ok"]
        /\ \A g \in Handlers \ {h} :
              job'[g] = IF job[g].stage = "truncated" THEN [job[g] EXCEPT !.mixed = TRUE]
                        ELSE job[g]
    BY DEF WriteData, Running
  <1>2. TypeOK'
    <2>1. disk' \in Maps \cup {Torn}
      BY <1>1 DEF IInv, TypeOK, Jobs
    <2>2. ASSUME NEW g \in Handlers PROVE job'[g] \in Jobs
      <3>1. job[g] \in Jobs
        BY DEF IInv, TypeOK
      <3>2. CASE g = h
        BY <1>1, <3>1, <3>2 DEF Jobs
      <3>3. CASE g # h
        BY <1>1, <3>1, <3>3 DEF Jobs
      <3>4. QED
        BY <3>2, <3>3
    <2>3. job' \in [Handlers -> Jobs]
      BY <2>2 DEF WriteData
    <2>4. QED
      BY <1>1, <2>1, <2>3 DEF IInv, TypeOK
  <1>3. ASSUME NEW g \in Handlers
        PROVE  /\ job'[g].data = job[g].data /\ job'[g].alone = job[g].alone
               /\ Running(g)' => Running(g)
               /\ g # h => job'[g].stage = job[g].stage
    <2>1. job[g] \in Jobs
      BY DEF IInv, TypeOK
    <2>2. CASE g = h
      BY <1>1, <2>1, <2>2 DEF Jobs, Running
    <2>3. CASE g # h
      <3>1. job'[g] = [job[g] EXCEPT !.mixed = TRUE] \/ job'[g] = job[g]
        BY <1>1, <2>3
      <3>2. /\ job'[g].data = job[g].data /\ job'[g].alone = job[g].alone
            /\ job'[g].stage = job[g].stage
        BY <2>1, <3>1 DEF Jobs
      <3>3. QED
        BY <1>1, <3>2 DEF Running
    <2>4. QED
      BY <2>2, <2>3
  <1>4. OneSaving' /\ SavesCurrent'
    BY <1>1, <1>3 DEF IInv, OneSaving, SavesCurrent
  <1>5. ASSUME NEW g \in Handlers, pc'[g] = "saving", job'[g].alone, g # h
        PROVE  FALSE
    BY <1>1, <1>3, <1>5 DEF IInv, AloneStays
  <1>6. AloneStays'
    BY <1>1, <1>3, <1>5 DEF IInv, TypeOK, Jobs, AloneStays
  <1>7. AloneSaveLands'
    <2> SUFFICES ASSUME NEW g \in Handlers, pc'[g] = "saving", job'[g].stage = "ok", job'[g].alone
                 PROVE  disk' = mem'
      BY DEF AloneSaveLands
    <2>1. g = h
      BY <1>5
    <2>2. pc[h] = "saving" /\ ~job[h].mixed
      BY <1>1, <1>3, <2>1 DEF IInv, AloneStays
    <2>3. QED
      BY <1>1, <2>2 DEF IInv, SavesCurrent
  <1>8. QED
    BY <1>2, <1>4, <1>6, <1>7 DEF IInv

LEMMA FailSaveInv ==
    ASSUME IInv, NEW h \in Handlers, FailSave(h)
    PROVE  IInv'
  <1>1. TypeOK'
    BY DEF FailSave, IInv, TypeOK, Jobs
  <1>2. /\ pc' = pc /\ mem' = mem /\ disk' = disk
        /\ job'[h] = [job[h] EXCEPT !.stage = "failed"]
        /\ \A g \in Handlers \ {h} : job'[g] = job[g]
    BY DEF FailSave, IInv, TypeOK
  <1>3. OneSaving' /\ SavesCurrent' /\ AloneStays' /\ AloneSaveLands'
    BY <1>2 DEF IInv, TypeOK, Jobs, OneSaving, SavesCurrent, AloneStays, AloneSaveLands, Running
  <1>4. QED
    BY <1>1, <1>3 DEF IInv

\* Answer and HangUp: the guard goes, the saves stay as they are.
LEMMA UnlockInv ==
    ASSUME IInv, NEW h \in Handlers, Answer(h) \/ HangUp(h)
    PROVE  IInv'
  <1>1. TypeOK'
    BY DEF Answer, HangUp, IInv, TypeOK, Jobs
  <1>2. /\ mem' = mem /\ disk' = disk /\ job' = job
        /\ \A g \in Handlers : pc'[g] = "saving" => pc[g] = "saving"
    BY DEF Answer, HangUp, IInv, TypeOK
  <1>3. OneSaving' /\ SavesCurrent' /\ AloneStays' /\ AloneSaveLands'
    BY <1>2 DEF IInv, OneSaving, SavesCurrent, AloneStays, AloneSaveLands, Running
  <1>4. QED
    BY <1>1, <1>3 DEF IInv

LEMMA RestartInv ==
    ASSUME IInv, Restart
    PROVE  IInv'
  <1>1. TypeOK'
    BY NoJobType DEF Restart, Load, EmptyMap, Maps, IInv, TypeOK
  <1>2. \A g \in Handlers : pc'[g] # "saving"
    BY DEF Restart
  <1>3. QED
    BY <1>1, <1>2 DEF IInv, OneSaving, SavesCurrent, AloneStays, AloneSaveLands

LEMMA NextInv == IInv /\ [Next]_vars => IInv'
  <1> SUFFICES ASSUME IInv, [Next]_vars
               PROVE  IInv'
    OBVIOUS
  <1>1. ASSUME NEW h \in Handlers, NEW k \in Keys, Put(h, k) \/ Delete(h, k)
        PROVE  IInv'
    BY <1>1, ChangeInv DEF Put, Delete
  <1>2. ASSUME NEW h \in Handlers,
               Truncate(h) \/ WriteData(h) \/ FailSave(h) \/ Answer(h) \/ HangUp(h)
        PROVE  IInv'
    BY <1>2, TruncateInv, WriteDataInv, FailSaveInv, UnlockInv
  <1>3. CASE UNCHANGED vars
    BY <1>3 DEF vars, IInv, TypeOK, OneSaving, SavesCurrent, AloneStays, AloneSaveLands, Running
  <1>4. QED
    BY <1>1, <1>2, <1>3, RestartInv DEF Next

----------------------------------------------------------------------------
(* The theorems.                                                           *)

LEMMA Invariance == Spec => []IInv
  BY InitInv, NextInv, PTL DEF Spec

\* The map, the file, handlers and saves always have the shape the code gives
\* them; in particular what is loaded at a restart is a map.
THEOREM TypeCorrect == Spec => []TypeOK
  <1>1. IInv => TypeOK
    BY DEF IInv
  <1>2. QED
    BY <1>1, Invariance, PTL

\* A save that is awaited (src/metadata/handlers.rs, oneshot_provisioned and
\* assignments_put) never writes a map that a later change has made old.
THEOREM SavesAreCurrent == Spec => []SavesCurrent
  <1>1. IInv => SavesCurrent
    BY DEF IInv
  <1>2. QED
    BY <1>1, Invariance, PTL

\* A save that found no other one running (src/templates.rs, save_oneshot) leaves
\* the file equal to the map, whatever state the file was in before.
THEOREM AloneSavesLand == Spec => []AloneSaveLands
  <1>1. IInv => AloneSaveLands
    BY DEF IInv
  <1>2. QED
    BY <1>1, Invariance, PTL
=============================================================================
