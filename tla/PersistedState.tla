--------------------------- MODULE PersistedState ---------------------------
(***************************************************************************)
(* A map kept in memory and in a JSON file on the PVC: the host-to-template*)
(* assignments and the oneshot completions (src/metadata/handlers.rs,      *)
(* src/templates.rs). A handler changes the map under its write guard and, *)
(* still holding it, saves the whole map with tokio's fs::write. That runs *)
(* on a blocking thread as open-and-truncate, then write: it can fail      *)
(* between the two, the process can stop between the two, and it goes on   *)
(* by itself when the client hangs up and the handler, with its guard, is  *)
(* dropped.                                                                *)
(***************************************************************************)
CONSTANTS
    Keys,        \* host names
    Vals,        \* what a host may be mapped to
    NoVal,       \* no entry
    Torn,        \* an empty or partly written file: not valid JSON
    Handlers     \* requests, each with at most one save on a blocking thread

ASSUME KeysAssumption == Keys # {}

Maps     == [Keys -> Vals \cup {NoVal}]
EmptyMap == [k \in Keys |-> NoVal]

VARIABLES
    mem,         \* the map behind the RwLock
    disk,        \* the file
    pc,          \* "saving": a handler that holds the guard and awaits its save
    job,         \* the save of each handler, running or done
    durable      \* history: hosts whose last change was answered with success

vars == <<mem, disk, pc, job, durable>>

NoJob == [stage |-> "none", data |-> EmptyMap, key |-> CHOOSE k \in Keys : TRUE,
          mixed |-> FALSE, alone |-> FALSE]

Jobs == [stage : {"none", "queued", "truncated", "ok", "failed"}, data : Maps,
         key : Keys, mixed : BOOLEAN, alone : BOOLEAN]

Running(h) == job[h].stage \in {"queued", "truncated"}
Locked     == \E h \in Handlers : pc[h] = "saving"

\* Mutation of Load: a file that does not parse is not replaced by an empty map.
LoadUnchecked(file) == file

\* load_assignments, load_oneshot: what does not parse counts as empty.
Load(file) == IF file = Torn THEN EmptyMap ELSE file

----------------------------------------------------------------------------
Init ==
    /\ disk = EmptyMap
    /\ mem = Load(disk)
    /\ pc = [h \in Handlers |-> "idle"]
    /\ job = [h \in Handlers |-> NoJob]
    /\ durable = {}

\* Mutation of Change: what is saved is the map before the change.
ChangeSavesOld(h, k, v) ==
    /\ pc[h] = "idle" /\ ~Running(h) /\ ~Locked
    /\ mem' = [mem EXCEPT ![k] = v]
    /\ pc' = [pc EXCEPT ![h] = "saving"]
    /\ job' = [job EXCEPT ![h] =
                 [stage |-> "queued", data |-> mem, key |-> k, mixed |-> FALSE,
                  alone |-> \A g \in Handlers : ~Running(g)]]
    /\ durable' = durable \ {k}
    /\ UNCHANGED disk

\* Mutation of Change: the guard is dropped before the save.
ChangeUnlocked(h, k, v) ==
    /\ pc[h] = "idle" /\ ~Running(h)
    /\ mem' = [mem EXCEPT ![k] = v]
    /\ pc' = [pc EXCEPT ![h] = "saving"]
    /\ job' = [job EXCEPT ![h] =
                 [stage |-> "queued", data |-> mem', key |-> k, mixed |-> FALSE,
                  alone |-> \A g \in Handlers : ~Running(g)]]
    /\ durable' = durable \ {k}
    /\ UNCHANGED disk

\* The change itself, and the start of the save: no await lies between.
Change(h, k, v) ==
    /\ pc[h] = "idle" /\ ~Running(h) /\ ~Locked
    /\ mem' = [mem EXCEPT ![k] = v]
    /\ pc' = [pc EXCEPT ![h] = "saving"]
    /\ job' = [job EXCEPT ![h] =
                 [stage |-> "queued", data |-> mem', key |-> k, mixed |-> FALSE,
                  alone |-> \A g \in Handlers : ~Running(g)]]
    /\ durable' = durable \ {k}
    /\ UNCHANGED disk

\* assignments_put, oneshot_provisioned
Put(h, k) == \E v \in Vals : Change(h, k, v)

\* assignments_delete, oneshot_delete: 404 where there is no entry.
Delete(h, k) == mem[k] # NoVal /\ Change(h, k, NoVal)

Truncate(h) ==
    /\ job[h].stage = "queued"
    /\ job' = [job EXCEPT ![h].stage = "truncated"]
    /\ disk' = Torn
    /\ UNCHANGED <<mem, pc, durable>>

\* Both writers of a file truncated twice write at its start: the later one
\* may leave the end of the earlier one behind.
WriteData(h) ==
    /\ job[h].stage = "truncated"
    /\ disk' \in {job[h].data} \cup (IF job[h].mixed THEN {Torn} ELSE {})
    /\ job' = [g \in Handlers |->
                 IF g = h THEN [job[g] EXCEPT !.stage = "ok"]
                 ELSE IF job[g].stage = "truncated" THEN [job[g] EXCEPT !.mixed = TRUE]
                 ELSE job[g]]
    /\ UNCHANGED <<mem, pc, durable>>

FailSave(h) ==
    /\ Running(h)
    /\ job' = [job EXCEPT ![h].stage = "failed"]
    /\ UNCHANGED <<mem, disk, pc, durable>>

\* 200 or 204 if the save went well, 500 otherwise; the change stays either way.
Answer(h) ==
    /\ pc[h] = "saving" /\ ~Running(h)
    /\ pc' = [pc EXCEPT ![h] = "idle"]
    /\ durable' = IF job[h].stage = "ok" THEN durable \cup {job[h].key} ELSE durable
    /\ UNCHANGED <<mem, disk, job>>

\* The client hangs up: the handler is dropped with its guard, the save is not.
HangUp(h) ==
    /\ pc[h] = "saving"
    /\ pc' = [pc EXCEPT ![h] = "idle"]
    /\ UNCHANGED <<mem, disk, job, durable>>

\* The process stops anywhere, and AppState::new loads the file again.
Restart ==
    /\ mem' = Load(disk)
    /\ pc' = [h \in Handlers |-> "idle"]
    /\ job' = [h \in Handlers |-> NoJob]
    /\ UNCHANGED <<disk, durable>>

Next ==
    \/ \E h \in Handlers :
          \/ \E k \in Keys : Put(h, k) \/ Delete(h, k)
          \/ Truncate(h) \/ WriteData(h) \/ FailSave(h) \/ Answer(h) \/ HangUp(h)
    \/ Restart

Spec == Init /\ [][Next]_vars

----------------------------------------------------------------------------
(* Properties.                                                             *)

TypeOK ==
    /\ mem \in Maps
    /\ disk \in Maps \cup {Torn}
    /\ pc \in [Handlers -> {"idle", "saving"}]
    /\ job \in [Handlers -> Jobs]
    /\ durable \subseteq Keys

\* A save whose handler still waits for it writes the map as it is now: because
\* the guard is kept across the save, a later change cannot be undone by it.
SavesCurrent ==
    \A h \in Handlers : (pc[h] = "saving" /\ Running(h)) => job[h].data = mem

\* When a save that found no other one running is about to be answered with
\* success, the file is the map, every host of it, whatever an earlier save that
\* failed or was cut short has left in the file.
AloneSaveLands ==
    \A h \in Handlers :
        (pc[h] = "saving" /\ job[h].stage = "ok" /\ job[h].alone) => disk = mem

\* "A PVC is mounted [...] for persistent template storage, assignments, and
\* oneshot state": a change answered with success is still there after a restart.
RestartKeepsAnswered ==
    [][Restart => \A k \in durable : mem'[k] = mem[k]]_vars
=============================================================================
