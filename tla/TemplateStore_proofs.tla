------------------------ MODULE TemplateStore_proofs ------------------------
(***************************************************************************)
(* Proofs about TemplateStore, for any template files, extensions, texts   *)
(* and callers: the invariant under which a get and a backup report a      *)
(* template whole, and that every step of the store keeps it. Who takes    *)
(* which step is up to Provisioning.                                       *)
(***************************************************************************)
EXTENDS TemplateStore, TLAPS

----------------------------------------------------------------------------
(* The invariant.                                                          *)

Calls == [op      : {"none", "get", "put", "delete", "backup", "restore"},
          at      : {"idle", "done", "read", "read_meta", "next"} \cup WriteSteps,
          name    : Names,
          text    : Contents,
          mode    : Modes,
          status  : {"none", "found", "missing", "error", "ok"},
          todo    : SUBSET (Names \cup Entries),
          got     : SUBSET Entries,
          dropped : BOOLEAN,
          void    : BOOLEAN,
          alone   : BOOLEAN,
          touched : SUBSET Names]

CallType(k) ==
    /\ k \in Calls
    /\ k.op = "backup" => k.todo \subseteq Names
    /\ k.op = "restore" => k.todo \subseteq Entries
    /\ k.at = "next" => k.op \in {"backup", "restore"}
    /\ k.at \in {"read", "read_meta"} => Reads(k)
    /\ k.at \in WriteSteps => k.op \in {"put", "delete", "restore"}
    /\ k.at = "done" /\ k.status = "found" => k.op = "get"

StoreTypes ==
    /\ files \in [Names -> Contents \cup {NoFile}]
    /\ metas \in [Names -> Modes \cup {Torn, NoFile}]
    /\ kept \in [Names -> [text : Contents, mode : Modes] \cup {NoFile, Unknown}]
    /\ call = [c \in Callers |-> call[c]]
    /\ \A c \in Callers : CallType(call[c])

Writes(k, n) == k.at \in WriteSteps /\ k.name = n

\* What is kept of n is what the files say, and nobody is changing them.
Quiet(n) ==
    \/ kept[n] = Unknown
    \/ /\ \A c \in Callers : ~Writes(call[c], n)
       /\ \/ kept[n] = NoFile /\ files[n] = NoFile
          \/ /\ kept[n] = [text |-> files[n], mode |-> ModeOf(metas[n])]
             /\ files[n] # NoFile

\* A writer that is alone has left behind what it means to.
AloneInv(c) ==
    call[c].at \in WriteSteps /\ call[c].alone =>
        /\ \A d \in Callers : Writes(call[d], call[c].name) => d = c
        /\ ~call[c].void
        /\ call[c].at = "write" => files[call[c].name] = Empty
        /\ call[c].at \in {"truncate_meta", "write_meta"} =>
              files[call[c].name] = call[c].text
        /\ call[c].at = "write_meta" => metas[call[c].name] = Torn
        /\ call[c].at = "remove_meta" => files[call[c].name] = NoFile

\* Nobody is changing a template that was not touched since the reader began.
UntouchedInv(c) ==
    Reads(call[c]) =>
        \A n \in Names \ call[c].touched : \A d \in Callers : ~Writes(call[d], n)

\* The template the reader is about to report, and those it has.
ReaderInv(c) ==
    Reads(call[c]) =>
        /\ call[c].at = "read_meta" /\ call[c].name \notin call[c].touched =>
              kept[call[c].name] \in
                  {Unknown, [text |-> call[c].text, mode |-> ModeOf(metas[call[c].name])]}
        /\ \A e \in call[c].got : e.name \notin call[c].touched => Shows(e.name, e)
        /\ call[c].at = "done" /\ call[c].status = "found"
              /\ call[c].name \notin call[c].touched => Shows(call[c].name, call[c])
        /\ call[c].at = "done" /\ call[c].status = "missing"
              /\ call[c].name \notin call[c].touched => kept[call[c].name] \in {Unknown, NoFile}

\* A backup still has every template to come that it has not got.
BackupInv(c) ==
    call[c].op = "backup" /\ (call[c].at = "done" => call[c].status = "ok") =>
        /\ \A n \in Names \ call[c].touched :
              \/ kept[n] \in {Unknown, NoFile}
              \/ n \in call[c].todo
              \/ \E e \in call[c].got : e.name = n
              \/ call[c].at \in {"read", "read_meta"} /\ call[c].name = n
        /\ call[c].at = "done" => call[c].todo = {}

CallInv(c) == AloneInv(c) /\ UntouchedInv(c) /\ ReaderInv(c) /\ BackupInv(c)

StoreInv ==
    /\ StoreTypes
    /\ \A n \in Names : Quiet(n)
    /\ \A c \in Callers : CallInv(c)

----------------------------------------------------------------------------
(* The operators.                                                          *)

LEMMA NothingType == CallType(Nothing) /\ Nothing.at = "idle" /\ Nothing.op = "none"
  <1>1. (CHOOSE n \in Names : TRUE) \in Names
    BY NamesAssumption
  <1>2. Empty \in Contents /\ "forever" \in Modes
    BY DEF Contents, Modes
  <1>3. Nothing \in Calls
    BY <1>1, <1>2 DEF Nothing, Calls
  <1>4. QED
    BY <1>3 DEF Nothing, CallType, WriteSteps

LEMMA NothingFacts == Nothing \in Calls /\ Nothing.todo = {}
  BY NothingType DEF CallType, Nothing

LEMMA FoundFacts ==
    ASSUME NEW n \in Names
    PROVE  /\ \A m \in Found(n) : m \in Names /\ files[m] # NoFile
           /\ files[n] # NoFile => Found(n) = {n}
           /\ Found(n) = {} => files[n] = NoFile
  <1> DEFINE tried == <<n>> \o Extensions[n]
             first == {j \in DOMAIN tried :
                files[tried[j]] # NoFile /\ \A k \in 1 .. (j - 1) : files[tried[k]] = NoFile}
  <1>1. Found(n) = {tried[i] : i \in first}
    BY DEF Found
  <1>2. Extensions[n] \in Seq(Names)
    BY NamesAssumption
  <1>3. tried \in Seq(Names) /\ tried[1] = n /\ 1 \in DOMAIN tried /\ DOMAIN tried \subseteq Nat \ {0}
    BY <1>2
  <1>4. \A i \in DOMAIN tried : tried[i] \in Names
    BY <1>3
  <1> HIDE DEF tried
  <1>5. files[n] # NoFile => first = {1}
    <2>1. ASSUME files[n] # NoFile PROVE 1 \in first
      BY <1>3, <2>1
    <2>2. ASSUME files[n] # NoFile, NEW j \in first PROVE j = 1
      <3>1. j \in Nat \ {0}
        BY <1>3
      <3>2. j # 1 => 1 \in 1 .. (j - 1)
        BY <3>1
      <3>3. QED
        BY <1>3, <2>2, <3>2
    <2>3. QED
      BY <2>1, <2>2
  <1>6. \A m \in Found(n) : m \in Names /\ files[m] # NoFile
    BY <1>1, <1>4
  <1>7. files[n] # NoFile => Found(n) = {n}
    BY <1>1, <1>3, <1>5
  <1>8. QED
    BY <1>6, <1>7

LEMMA ModeFacts ==
    \A m : ModeOf(m) \in Modes /\ (m \in Modes => ModeOf(m) = m)
  BY DEF ModeOf, Modes

----------------------------------------------------------------------------
(* Steps in general.                                                       *)

\* A step of c that changes nothing but, as a writer of n, the files of n, and
\* what others mean to write there, keeps what holds of the others.
LEMMA OthersKeep ==
    ASSUME StoreInv, NEW c \in Callers, NEW n \in Names, NEW d \in Callers, d # c,
           \A m \in Names \ {n} : /\ files'[m] = files[m] /\ metas'[m] = metas[m]
                                  /\ kept'[m] = kept[m],
           Writes(call[c], n) \/ UNCHANGED <<files, metas, kept>>,
           \/ call'[d] = call[d]
           \/ /\ Writes(call[c], n) /\ Writes(call[d], n)
              /\ call'[d] = [call[d] EXCEPT !.void = TRUE],
           \A m \in Names, b \in Callers : Writes(call'[b], m) => Writes(call[b], m)
    PROVE  CallInv(d)'
  <1>1. CallType(call[d]) /\ CallInv(d) /\ call[d].name \in Names
    BY DEF StoreInv, StoreTypes, CallType, Calls
  <1>2. /\ call'[d].op = call[d].op /\ call'[d].at = call[d].at /\ call'[d].name = call[d].name
        /\ call'[d].text = call[d].text /\ call'[d].mode = call[d].mode
        /\ call'[d].status = call[d].status /\ call'[d].todo = call[d].todo
        /\ call'[d].got = call[d].got /\ call'[d].alone = call[d].alone
        /\ call'[d].touched = call[d].touched
    BY <1>1 DEF CallType, Calls
  <1>3. AloneInv(d)'
    <2> SUFFICES ASSUME call[d].at \in WriteSteps, call[d].alone
                 PROVE  AloneInv(d)'
      BY <1>2 DEF AloneInv
    <2>1. ~Writes(call[c], call[d].name)
      BY <1>1 DEF CallInv, AloneInv
    <2>2. call'[d] = call[d]
      BY <2>1 DEF Writes
    <2>3. /\ files'[call[d].name] = files[call[d].name]
          /\ metas'[call[d].name] = metas[call[d].name]
      BY <1>1, <2>1
    <2>4. \A b \in Callers : Writes(call'[b], call[d].name) => b = d
      BY <1>1 DEF CallInv, AloneInv
    <2>5. QED
      BY <1>1, <2>2, <2>3, <2>4 DEF CallInv, AloneInv
  <1>4. UntouchedInv(d)'
    BY <1>1, <1>2 DEF CallInv, UntouchedInv, Reads
  <1>5. ASSUME Reads(call[d]), NEW m \in Names \ call[d].touched
        PROVE  kept'[m] = kept[m] /\ metas'[m] = metas[m]
    BY <1>1, <1>5 DEF CallInv, UntouchedInv
  <1>6. ReaderInv(d)'
    <2> SUFFICES ASSUME Reads(call[d]) PROVE ReaderInv(d)'
      BY <1>2 DEF ReaderInv, Reads
    <2>1. \A e \in call[d].got : e.name \in Names
      BY <1>1 DEF CallType, Calls, Entries
    <2>2. \A e \in call[d].got : e.name \notin call[d].touched => Shows(e.name, e)'
      BY <1>1, <1>5, <2>1 DEF CallInv, ReaderInv, Shows
    <2>3. QED
      BY <1>1, <1>2, <1>5, <2>2 DEF CallInv, ReaderInv, Shows
  <1>7. BackupInv(d)'
    BY <1>1, <1>2, <1>5 DEF CallInv, BackupInv, Reads
  <1>8. QED
    BY <1>3, <1>4, <1>6, <1>7 DEF CallInv

\* A step of c that changes no file.
LEMMA GotoInv ==
    ASSUME StoreInv, NEW c \in Callers, NEW k, call' = [call EXCEPT ![c] = k],
           UNCHANGED <<files, metas, kept>>, CallType(k), CallInv(c)',
           k.at \in WriteSteps => call[c].at \in WriteSteps /\ k.name = call[c].name
    PROVE  StoreInv'
  <1>1. /\ call'[c] = k /\ \A d \in Callers \ {c} : call'[d] = call[d]
        /\ call' = [d \in Callers |-> call'[d]]
    BY DEF StoreInv, StoreTypes
  <1>2. \A m \in Names, b \in Callers : Writes(call'[b], m) => Writes(call[b], m)
    BY <1>1 DEF Writes
  <1>3. StoreTypes'
    BY <1>1 DEF StoreInv, StoreTypes
  <1>4. ASSUME NEW n \in Names PROVE Quiet(n)'
    BY <1>2 DEF StoreInv, Quiet
  <1>5. ASSUME NEW d \in Callers PROVE CallInv(d)'
    <2>1. CASE d = c
      BY <2>1
    <2>2. CASE d # c
      <3>1. PICK n \in Names : TRUE
        BY NamesAssumption
      <3>2. QED
        BY <1>1, <1>2, <2>2, <3>1, OthersKeep
    <2>3. QED
      BY <2>1, <2>2
  <1>6. QED
    BY <1>3, <1>4, <1>5 DEF StoreInv

\* A step of c that changes no file, and after which it neither reads nor writes.
LEMMA PlainGoto ==
    ASSUME StoreInv, NEW c \in Callers, NEW k, Goto(c, k), UNCHANGED <<files, metas, kept>>,
           CallType(k), ~Reads(k), k.at \notin WriteSteps
    PROVE  StoreInv'
  <1>1. call' = [call EXCEPT ![c] = k]
    BY DEF Goto
  <1>2. call'[c] = k
    BY <1>1 DEF StoreInv, StoreTypes
  <1>3. CallInv(c)'
    BY <1>2 DEF CallInv, AloneInv, UntouchedInv, ReaderInv, BackupInv, Reads
  <1>4. QED
    BY <1>1, <1>3, GotoInv

LEMMA DropInv ==
    ASSUME StoreInv, NEW c \in Callers, call' = [call EXCEPT ![c] = Nothing],
           UNCHANGED <<files, metas, kept>>
    PROVE  StoreInv'
  BY NothingType, PlainGoto DEF Goto, Reads, WriteSteps

\* A step of c that goes on reading: what it reports then must be right.
LEMMA ReaderGoto ==
    ASSUME StoreInv, NEW c \in Callers, NEW k, Goto(c, k), UNCHANGED <<files, metas, kept>>,
           CallType(k), k.at \notin WriteSteps,
           \A n \in Names \ k.touched : \A d \in Callers : ~Writes(call[d], n),
           ReaderInv(c)', BackupInv(c)'
    PROVE  StoreInv'
  <1>1. call' = [call EXCEPT ![c] = k]
    BY DEF Goto
  <1>2. call'[c] = k /\ \A d \in Callers \ {c} : call'[d] = call[d]
    BY <1>1 DEF StoreInv, StoreTypes
  <1>3. AloneInv(c)' /\ UntouchedInv(c)'
    BY <1>2 DEF AloneInv, UntouchedInv, Writes
  <1>4. CallInv(c)'
    BY <1>3 DEF CallInv
  <1>5. QED
    BY <1>1, <1>4, GotoInv

\* c starts to write n.
LEMMA StartWriteInv ==
    ASSUME StoreInv, NEW c \in Callers, NEW n \in Names, NEW k, StartWrite(c, n, k),
           UNCHANGED <<files, metas>>, CallType(k), ~Reads(k), k.at \in {"truncate", "remove"}
    PROVE  StoreInv'
  <1>1. /\ call' = [d \in Callers |->
                      IF d = c THEN [k EXCEPT !.name = n, !.alone = WritersOf(n) = {},
                                              !.void = FALSE]
                      ELSE Disturb(call[d], n)]
        /\ kept' = [kept EXCEPT ![n] = Unknown]
    BY DEF StartWrite
  <1>2. \A d \in Callers : CallType(call[d])
    BY DEF StoreInv, StoreTypes
  <1>3. /\ call'[c].at = k.at /\ call'[c].name = n /\ call'[c].op = k.op
        /\ call'[c].alone = (WritersOf(n) = {}) /\ ~call'[c].void
        /\ CallType(call'[c])
    BY <1>1 DEF CallType, Calls, Reads
  <1>4. ASSUME NEW d \in Callers, d # c
        PROVE  /\ call'[d].op = call[d].op /\ call'[d].at = call[d].at
               /\ call'[d].name = call[d].name /\ call'[d].text = call[d].text
               /\ call'[d].mode = call[d].mode /\ call'[d].status = call[d].status
               /\ call'[d].todo = call[d].todo /\ call'[d].got = call[d].got
               /\ call'[d].void = call[d].void
               /\ call'[d].alone = (call[d].alone /\ call[d].name # n)
               /\ call'[d].touched = IF Reads(call[d]) THEN call[d].touched \cup {n}
                                     ELSE call[d].touched
               /\ CallType(call'[d])
    <2>1. call[d] \in Calls
      BY <1>2 DEF CallType
    <2>2. call'[d] = Disturb(call[d], n)
      BY <1>1, <1>4
    <2>3. call'[d] \in Calls
      <3> DEFINE t == IF Reads(call[d]) THEN call[d].touched \cup {n} ELSE call[d].touched
                 a == call[d].alone /\ call[d].name # n
      <3>1. call'[d] = [call[d] EXCEPT !.touched = t, !.alone = a]
        BY <2>1, <2>2 DEF Disturb, Calls
      <3>2. t \in SUBSET Names /\ a \in BOOLEAN
        BY <2>1 DEF Calls
      <3> HIDE DEF t, a
      <3>3. QED
        BY <2>1, <3>1, <3>2 DEF Calls
    <2>4. /\ call'[d].op = call[d].op /\ call'[d].at = call[d].at
          /\ call'[d].name = call[d].name /\ call'[d].text = call[d].text
          /\ call'[d].mode = call[d].mode /\ call'[d].status = call[d].status
          /\ call'[d].todo = call[d].todo /\ call'[d].got = call[d].got
          /\ call'[d].void = call[d].void
      BY <2>1, <2>2 DEF Disturb, Calls
    <2>5. call'[d].alone = (call[d].alone /\ call[d].name # n)
      BY <2>1, <2>2 DEF Disturb, Calls
    <2>6. call'[d].touched = IF Reads(call[d]) THEN call[d].touched \cup {n}
                             ELSE call[d].touched
      BY <2>1, <2>2 DEF Disturb, Calls
    <2>7. CallType(call'[d])
      BY <1>2, <2>3, <2>4 DEF CallType, Reads
    <2>8. QED
      BY <2>4, <2>5, <2>6, <2>7
  <1>5. /\ \A m \in Names \ {n}, d \in Callers : Writes(call'[d], m) => Writes(call[d], m)
        /\ \A m \in Names \ {n} : kept'[m] = kept[m]
        /\ kept'[n] = Unknown
    BY <1>1, <1>3, <1>4 DEF StoreInv, StoreTypes, Writes
  <1>6. StoreTypes'
    <2>1. kept' \in [Names -> [text : Contents, mode : Modes] \cup {NoFile, Unknown}]
      BY <1>1 DEF StoreInv, StoreTypes
    <2>2. call' = [d \in Callers |-> call'[d]]
      BY <1>1
    <2>3. QED
      BY <1>3, <1>4, <2>1, <2>2 DEF StoreInv, StoreTypes
  <1>7. ASSUME NEW m \in Names PROVE Quiet(m)'
    BY <1>5 DEF StoreInv, Quiet
  <1>8. CallInv(c)'
    <2>1. \A d \in Callers \ {c} : WritersOf(n) = {} => ~Writes(call'[d], n)
      BY <1>4 DEF WritersOf, Writes
    <2>2. AloneInv(c)'
      BY <1>3, <2>1 DEF AloneInv, Writes
    <2>3. QED
      BY <1>3, <2>2 DEF CallInv, UntouchedInv, ReaderInv, BackupInv, Reads
  <1>9. ASSUME NEW d \in Callers, d # c PROVE CallInv(d)'
    <2>1. CallInv(d) /\ CallType(call[d])
      BY <1>2 DEF StoreInv
    <2>2. AloneInv(d)'
      <3> SUFFICES ASSUME call[d].at \in WriteSteps, call[d].alone, call[d].name # n
                   PROVE  AloneInv(d)'
        BY <1>4, <1>9 DEF AloneInv
      <3>1. \A b \in Callers : Writes(call'[b], call[d].name) => b = d
        BY <1>5, <2>1 DEF CallInv, AloneInv, CallType, Calls
      <3>2. QED
        BY <1>4, <1>9, <2>1, <3>1 DEF CallInv, AloneInv
    <2>3. ASSUME Reads(call[d])
          PROVE  /\ call'[d].touched = call[d].touched \cup {n}
                 /\ \A m \in Names \ call'[d].touched : m # n /\ m \notin call[d].touched
      BY <1>4, <1>9, <2>3
    <2>4. UntouchedInv(d)'
      BY <1>4, <1>5, <1>9, <2>1, <2>3 DEF CallInv, UntouchedInv, Reads
    <2>5. ReaderInv(d)'
      <3> SUFFICES ASSUME Reads(call[d]) PROVE ReaderInv(d)'
        BY <1>4, <1>9 DEF ReaderInv, Reads
      <3>1. \A e \in call[d].got : e.name \in Names
        BY <2>1 DEF CallType, Calls, Entries
      <3>2. call[d].name \in Names
        BY <2>1 DEF CallType, Calls
      <3>3. \A e \in call'[d].got : e.name \notin call'[d].touched => Shows(e.name, e)'
        BY <1>4, <1>5, <1>9, <2>1, <2>3, <3>1 DEF CallInv, ReaderInv, Shows
      <3>4. call'[d].name \notin call'[d].touched => kept'[call'[d].name] = kept[call[d].name]
        BY <1>4, <1>5, <1>9, <2>3, <3>2
      <3>5. call'[d].name \notin call'[d].touched => call[d].name \notin call[d].touched
        BY <1>4, <1>9, <2>3
      <3>6. QED
        BY <1>4, <1>9, <2>1, <3>3, <3>4, <3>5 DEF CallInv, ReaderInv, Shows
    <2>6. BackupInv(d)'
      <3> SUFFICES ASSUME call[d].op = "backup" PROVE BackupInv(d)'
        BY <1>4, <1>9 DEF BackupInv
      <3>1. \A m \in Names \ call'[d].touched : m \in Names \ call[d].touched /\ kept'[m] = kept[m]
        BY <1>5, <2>3 DEF Reads
      <3>2. /\ call'[d].op = call[d].op /\ call'[d].at = call[d].at /\ call'[d].name = call[d].name
            /\ call'[d].status = call[d].status /\ call'[d].todo = call[d].todo
            /\ call'[d].got = call[d].got
        BY <1>4, <1>9
      <3>3. BackupInv(d)
        BY <2>1 DEF CallInv
      <3>4. QED
        BY <3>1, <3>2, <3>3 DEF BackupInv
    <2>7. QED
      BY <2>2, <2>4, <2>5, <2>6 DEF CallInv
  <1>10. QED
    BY <1>6, <1>7, <1>8, <1>9 DEF StoreInv

----------------------------------------------------------------------------
(* One lemma per action: those that read.                                  *)

\* What Reading makes of a reader k: it has not found n, or reads what it found.
LEMMA ReadingFacts ==
    ASSUME NEW c \in Callers, NEW n \in Names, NEW k, CallType(k), Reads(k),
           k.at \in {"idle", "next"}
    PROVE  LET new == Reading(c, n, k)
           IN  /\ CallType(new) /\ new.op = k.op /\ new.got = k.got
               /\ new.todo = k.todo /\ new.touched = k.touched
               /\ \/ Found(n) = {} /\ k.op = "backup" /\ new.at = "next"
                  \/ /\ Found(n) = {} /\ k.op = "get"
                     /\ new.at = "done" /\ new.status = "missing" /\ new.name = k.name
                  \/ Found(n) # {} /\ new.at = "read" /\ new.name \in Found(n)
  <1> DEFINE new == Reading(c, n, k)
  <1>1. k \in Calls /\ k.op \in {"get", "backup"}
    BY DEF CallType, Reads
  <1>2. CASE Found(n) = {} /\ k.op = "backup"
    <2>1. new = Between(k)
      BY <1>2 DEF Reading
    <2>2. new \in Calls /\ new.op = k.op /\ new.at = "next" /\ new.todo = k.todo
          /\ new.got = k.got /\ new.touched = k.touched
      BY <1>1, <2>1, NothingType DEF Between, CallType, Calls
    <2>3. QED
      BY <1>2, <2>2 DEF CallType, WriteSteps
  <1>3. CASE Found(n) = {} /\ k.op = "get"
    <2>1. new = [k EXCEPT !.at = "done", !.status = "missing"]
      BY <1>3 DEF Reading
    <2>2. QED
      BY <1>1, <1>3, <2>1 DEF CallType, Calls, WriteSteps
  <1>4. CASE Found(n) # {}
    <2>1. PICK m \in Found(n) : m = CHOOSE o \in Found(n) : TRUE
      BY <1>4
    <2>2. new = [k EXCEPT !.at = "read", !.name = m]
      BY <1>4, <2>1 DEF Reading
    <2>3. m \in Names
      BY FoundFacts
    <2>4. QED
      BY <1>1, <1>4, <2>1, <2>2, <2>3 DEF CallType, Calls, WriteSteps, Reads
  <1>5. QED
    BY <1>1, <1>2, <1>3, <1>4

\* A template that is not in its file is not kept either.
LEMMA QuietFacts ==
    ASSUME StoreInv, NEW n \in Names, \A d \in Callers : ~Writes(call[d], n)
    PROVE  /\ files[n] = NoFile => kept[n] \in {Unknown, NoFile}
           /\ files[n] # NoFile =>
                 kept[n] \in {Unknown, [text |-> files[n], mode |-> ModeOf(metas[n])]}
  BY DEF StoreInv, Quiet

LEMMA GetInv ==
    ASSUME StoreInv, NEW c \in Callers, NEW n \in Names, Get(c, n)
    PROVE  StoreInv' /\ call'[c].op = "get"
  <1> DEFINE asked == [Nothing EXCEPT !.op = "get", !.name = n,
                                      !.touched = {m \in Names : WritersOf(m) # {}}]
             new   == Reading(c, n, asked)
  <1>1. /\ CallType(asked) /\ Reads(asked) /\ asked.op = "get" /\ asked.at = "idle"
        /\ asked.name = n /\ asked.got = {}
        /\ asked.touched = {m \in Names : WritersOf(m) # {}}
    BY NothingType, NothingFacts DEF Nothing, CallType, Calls, Reads, WriteSteps
  <1>2. /\ CallType(new) /\ new.op = "get" /\ new.got = {} /\ new.touched = asked.touched
        /\ \/ /\ Found(n) = {} /\ new.at = "done" /\ new.status = "missing" /\ new.name = n
           \/ new.at = "read"
    <2> HIDE DEF asked
    <2>1. QED
      BY <1>1, ReadingFacts
  <1>3. call' = [call EXCEPT ![c] = new] /\ UNCHANGED <<files, metas, kept>>
    BY DEF Get, Goto
  <1> HIDE DEF new
  <1>4. call'[c] = new
    BY <1>3 DEF StoreInv, StoreTypes
  <1>5. \A m \in Names \ new.touched : \A d \in Callers : ~Writes(call[d], m)
    BY <1>1, <1>2 DEF WritersOf, Writes
  <1>6. ReaderInv(c)'
    <2>1. ASSUME new.at = "done", n \notin new.touched PROVE kept[n] \in {Unknown, NoFile}
      BY <1>2, <1>5, <2>1, FoundFacts, QuietFacts
    <2>2. QED
      BY <1>2, <1>3, <1>4, <2>1 DEF ReaderInv
  <1>7. BackupInv(c)'
    BY <1>2, <1>4 DEF BackupInv
  <1>8. QED
    BY <1>2, <1>3, <1>4, <1>5, <1>6, <1>7, ReaderGoto DEF Goto, WriteSteps

LEMMA ReadContentInv ==
    ASSUME StoreInv, NEW c \in Callers, ReadContent(c)
    PROVE  StoreInv' /\ call'[c].op = call[c].op
  <1> DEFINE found == files[call[c].name]
             new   == IF found = NoFile THEN Ended(c, "error")
                      ELSE [call[c] EXCEPT !.at = "read_meta", !.text = found]
  <1>1. /\ CallType(call[c]) /\ call[c] \in Calls /\ CallInv(c)
        /\ call[c].at = "read" /\ Reads(call[c]) /\ call[c].name \in Names
    BY DEF ReadContent, StoreInv, StoreTypes, CallType, Calls
  <1>2. call' = [call EXCEPT ![c] = new] /\ UNCHANGED <<files, metas, kept>>
    BY DEF ReadContent, Goto
  <1>3. found \in Contents \cup {NoFile}
    BY <1>1 DEF StoreInv, StoreTypes
  <1>4. /\ new \in Calls /\ new.op = call[c].op /\ new.got = call[c].got
        /\ new.todo = call[c].todo /\ new.touched = call[c].touched
        /\ new.name = call[c].name
        /\ \/ new.at = "done" /\ new.status = "error"
           \/ found # NoFile /\ new.at = "read_meta" /\ new.text = found
    <2> HIDE DEF found
    <2>1. CASE found = NoFile
      <3>1. new = [call[c] EXCEPT !.at = "done", !.status = "error"]
        BY <1>1, <2>1 DEF Ended
      <3>2. QED
        BY <1>1, <3>1 DEF Calls
    <2>2. CASE found # NoFile
      <3>1. new = [call[c] EXCEPT !.at = "read_meta", !.text = found]
        BY <2>2
      <3>2. found \in Contents
        BY <1>3, <2>2
      <3>3. QED
        BY <1>1, <2>2, <3>1, <3>2 DEF Calls
    <2>3. QED
      BY <2>1, <2>2
  <1> HIDE DEF new
  <1>5. CallType(new) /\ new.at \notin WriteSteps
    BY <1>1, <1>4 DEF CallType, Reads, WriteSteps
  <1>6. call'[c] = new
    BY <1>2 DEF StoreInv, StoreTypes
  <1>7. \A m \in Names \ new.touched : \A d \in Callers : ~Writes(call[d], m)
    BY <1>1, <1>4 DEF CallInv, UntouchedInv
  <1>8. ReaderInv(c)'
    <2>1. ASSUME found # NoFile, call[c].name \notin call[c].touched
          PROVE  kept[call[c].name] \in
                    {Unknown, [text |-> found, mode |-> ModeOf(metas[call[c].name])]}
      BY <1>1, <1>4, <1>7, <2>1, QuietFacts
    <2>2. \A e \in new.got : e.name \notin new.touched => Shows(e.name, e)'
      BY <1>1, <1>2, <1>4 DEF CallInv, ReaderInv, Shows
    <2>3. QED
      BY <1>2, <1>4, <1>6, <2>1, <2>2 DEF ReaderInv
  <1>9. BackupInv(c)'
    BY <1>1, <1>2, <1>4, <1>6 DEF CallInv, BackupInv
  <1>10. QED
    BY <1>2, <1>4, <1>5, <1>6, <1>7, <1>8, <1>9, ReaderGoto DEF Goto

LEMMA ReadMetaInv ==
    ASSUME StoreInv, NEW c \in Callers, ReadMeta(c)
    PROVE  StoreInv' /\ call'[c].op = call[c].op
  <1> DEFINE mode == ModeOf(metas[call[c].name])
             k    == [call[c] EXCEPT !.mode = mode]
             e    == [name |-> k.name, text |-> k.text, mode |-> k.mode]
             new  == IF k.op = "get" THEN [k EXCEPT !.at = "done", !.status = "found"]
                     ELSE Between([k EXCEPT !.got = @ \cup {e}])
  <1>1. /\ CallType(call[c]) /\ call[c] \in Calls /\ CallInv(c)
        /\ call[c].at = "read_meta" /\ Reads(call[c]) /\ call[c].name \in Names
    BY DEF ReadMeta, StoreInv, StoreTypes, CallType, Calls
  <1>2. call' = [call EXCEPT ![c] = new] /\ UNCHANGED <<files, metas, kept>>
    BY DEF ReadMeta, Goto
  <1>3. mode \in Modes
    BY ModeFacts
  <1> HIDE DEF mode
  <1>4. /\ k \in Calls /\ k.op = call[c].op /\ k.got = call[c].got /\ k.name = call[c].name
        /\ k.text = call[c].text /\ k.mode = mode
        /\ k.todo = call[c].todo /\ k.touched = call[c].touched
    BY <1>1, <1>3 DEF Calls
  <1>5. e \in Entries /\ e.name = call[c].name /\ e.text = call[c].text /\ e.mode = mode
    BY <1>1, <1>3, <1>4 DEF Entries, Calls
  <1> HIDE DEF k, e
  <1>6. /\ new \in Calls /\ new.op = call[c].op
        /\ new.todo = call[c].todo /\ new.touched = call[c].touched
        /\ \/ /\ new.op = "get" /\ new.at = "done" /\ new.status = "found"
              /\ new.got = call[c].got
              /\ new.name = call[c].name /\ new.text = call[c].text /\ new.mode = mode
           \/ new.op = "backup" /\ new.at = "next" /\ new.got = call[c].got \cup {e}
    <2>1. CASE call[c].op = "get"
      <3>1. new = [k EXCEPT !.at = "done", !.status = "found"]
        BY <1>4, <2>1
      <3>2. QED
        BY <1>4, <2>1, <3>1 DEF Calls
    <2>2. CASE call[c].op = "backup"
      <3>1. new = Between([k EXCEPT !.got = @ \cup {e}])
        BY <1>4, <2>2
      <3>2. QED
        BY <1>4, <1>5, <2>2, <3>1, NothingType DEF Between, CallType, Calls
    <2>3. QED
      BY <1>1, <2>1, <2>2 DEF Reads
  <1> HIDE DEF new
  <1>7. CallType(new) /\ new.at \notin WriteSteps
    BY <1>1, <1>6 DEF CallType, WriteSteps
  <1>8. call'[c] = new
    BY <1>2 DEF StoreInv, StoreTypes
  <1>9. \A m \in Names \ new.touched : \A d \in Callers : ~Writes(call[d], m)
    BY <1>1, <1>6 DEF CallInv, UntouchedInv
  <1>10. call[c].name \notin call[c].touched =>
            kept[call[c].name] \in {Unknown, [text |-> call[c].text, mode |-> mode]}
    BY <1>1 DEF CallInv, ReaderInv, mode
  <1>11. ReaderInv(c)'
    <2>1. \A x \in call[c].got : x.name \notin call[c].touched => Shows(x.name, x)'
      BY <1>1, <1>2 DEF CallInv, ReaderInv, Shows
    <2>2. e.name \notin call[c].touched =>
             kept'[e.name] \in {Unknown, [text |-> e.text, mode |-> e.mode]}
      BY <1>2, <1>5, <1>10
    <2>3. new.at = "done" /\ new.name \notin new.touched =>
             kept'[new.name] \in {Unknown, [text |-> new.text, mode |-> new.mode]}
      BY <1>2, <1>6, <1>10
    <2>4. QED
      BY <1>6, <1>8, <2>1, <2>2, <2>3 DEF ReaderInv, Shows
  <1>12. BackupInv(c)'
    BY <1>1, <1>2, <1>5, <1>6, <1>8 DEF CallInv, BackupInv
  <1>13. QED
    BY <1>2, <1>6, <1>7, <1>8, <1>9, <1>11, <1>12, ReaderGoto DEF Goto

LEMMA BackupStartInv ==
    ASSUME StoreInv, NEW c \in Callers, Backup(c)
    PROVE  StoreInv'
  <1> DEFINE new == [Nothing EXCEPT !.op = "backup", !.at = "next",
                        !.todo = {n \in Names : files[n] # NoFile},
                        !.touched = {m \in Names : WritersOf(m) # {}}]
  <1>1. call' = [call EXCEPT ![c] = new] /\ UNCHANGED <<files, metas, kept>>
    BY DEF Backup, Goto
  <1>2. /\ new \in Calls /\ new.op = "backup" /\ new.at = "next" /\ new.got = {}
        /\ new.todo = {n \in Names : files[n] # NoFile}
        /\ new.touched = {m \in Names : WritersOf(m) # {}}
    BY NothingType DEF Nothing, CallType, Calls
  <1> HIDE DEF new
  <1>3. CallType(new) /\ new.at \notin WriteSteps
    BY <1>2 DEF CallType, WriteSteps
  <1>4. call'[c] = new
    BY <1>1 DEF StoreInv, StoreTypes
  <1>5. \A m \in Names \ new.touched : \A d \in Callers : ~Writes(call[d], m)
    BY <1>2 DEF WritersOf, Writes
  <1>6. \A n \in Names \ new.touched : kept[n] \in {Unknown, NoFile} \/ n \in new.todo
    BY <1>2, <1>5, QuietFacts
  <1>7. ReaderInv(c)' /\ BackupInv(c)'
    BY <1>1, <1>2, <1>4, <1>6 DEF ReaderInv, BackupInv
  <1>8. QED
    BY <1>1, <1>3, <1>4, <1>5, <1>7, ReaderGoto DEF Goto

\* A backup has listed all entries, or goes on to one.
LEMMA BackupEntryInv ==
    ASSUME StoreInv, NEW c \in Callers, call[c].at = "next", call[c].op = "backup",
           UNCHANGED <<files, metas, kept>>,
           \/ call[c].todo = {} /\ Goto(c, Ended(c, "ok"))
           \/ \E n \in call[c].todo :
                 Goto(c, Reading(c, n, [call[c] EXCEPT !.todo = @ \ {n}]))
    PROVE  StoreInv' /\ call'[c].op = call[c].op
  <1>1. /\ CallType(call[c]) /\ call[c] \in Calls /\ CallInv(c) /\ Reads(call[c])
        /\ call[c].todo \subseteq Names
    BY DEF StoreInv, StoreTypes, CallType, Reads
  <1>2. \A m \in Names \ call[c].touched : \A d \in Callers : ~Writes(call[d], m)
    BY <1>1 DEF CallInv, UntouchedInv
  <1>3. ASSUME NEW new, call' = [call EXCEPT ![c] = new], CallType(new),
               new.op = "backup", new.at \notin WriteSteps \cup {"read_meta"},
               new.got = call[c].got, new.touched = call[c].touched,
               new.at = "done" => new.status = "ok",
               BackupInv(c)'
        PROVE  StoreInv' /\ call'[c].op = call[c].op
    <2>1. call'[c] = new
      BY <1>3 DEF StoreInv, StoreTypes
    <2>2. \A e \in new.got : e.name \notin new.touched => Shows(e.name, e)'
      BY <1>1, <1>3 DEF CallInv, ReaderInv, Shows
    <2>3. ReaderInv(c)'
      BY <1>3, <2>1, <2>2 DEF ReaderInv
    <2>4. QED
      BY <1>2, <1>3, <2>1, <2>3, ReaderGoto DEF Goto
  <1>4. CASE call[c].todo = {} /\ Goto(c, Ended(c, "ok"))
    <2> DEFINE new == Ended(c, "ok")
    <2>1. new = [call[c] EXCEPT !.at = "done", !.status = "ok"]
      BY <1>1 DEF Ended
    <2>2. /\ new \in Calls /\ new.op = "backup" /\ new.at = "done" /\ new.status = "ok"
          /\ new.got = call[c].got /\ new.touched = call[c].touched /\ new.todo = {}
      BY <1>1, <1>4, <2>1 DEF Calls
    <2> HIDE DEF new
    <2>3. CallType(new)
      BY <2>2 DEF CallType, WriteSteps
    <2>4. call' = [call EXCEPT ![c] = new] /\ call'[c] = new
      BY <1>4 DEF Goto, StoreInv, StoreTypes, new
    <2>5. BackupInv(c)'
      BY <1>1, <1>4, <2>2, <2>4 DEF CallInv, BackupInv
    <2>6. QED
      BY <1>3, <2>2, <2>3, <2>4, <2>5 DEF WriteSteps
  <1>5. CASE \E n \in call[c].todo :
                Goto(c, Reading(c, n, [call[c] EXCEPT !.todo = @ \ {n}]))
    <2>1. PICK n \in call[c].todo : Goto(c, Reading(c, n, [call[c] EXCEPT !.todo = @ \ {n}]))
      BY <1>5
    <2> DEFINE rest == [call[c] EXCEPT !.todo = @ \ {n}]
               new  == Reading(c, n, rest)
    <2>2. /\ rest \in Calls /\ rest.op = "backup" /\ rest.at = "next"
          /\ rest.got = call[c].got /\ rest.touched = call[c].touched
          /\ rest.todo = call[c].todo \ {n} /\ n \in Names
      BY <1>1 DEF Calls
    <2>3. CallType(rest) /\ Reads(rest)
      BY <1>1, <2>2 DEF CallType, Reads, WriteSteps
    <2> HIDE DEF rest
    <2>4. /\ CallType(new) /\ new.op = "backup" /\ new.got = call[c].got
          /\ new.touched = call[c].touched /\ new.todo = call[c].todo \ {n}
          /\ \/ Found(n) = {} /\ new.at = "next"
             \/ Found(n) # {} /\ new.at = "read" /\ new.name \in Found(n)
      BY <2>2, <2>3, ReadingFacts
    <2>5. call' = [call EXCEPT ![c] = new] /\ call'[c] = new
      BY <2>1 DEF Goto, StoreInv, StoreTypes, rest
    <2> HIDE DEF new
    <2>6. n \notin call[c].touched =>
             kept[n] \in {Unknown, NoFile} \/ (new.at = "read" /\ new.name = n)
      BY <1>2, <2>2, <2>4, FoundFacts, QuietFacts
    <2>7. BackupInv(c)'
      BY <1>1, <2>4, <2>5, <2>6 DEF CallInv, BackupInv
    <2>8. QED
      BY <1>3, <2>4, <2>5, <2>7 DEF WriteSteps
  <1>6. QED
    BY <1>4, <1>5

\* A writer reports its end and forgets what it did.
LEMMA EndedFacts ==
    ASSUME StoreInv, NEW c \in Callers, ~Reads(call[c]), NEW status \in {"ok", "error"}
    PROVE  /\ CallType(Ended(c, status)) /\ ~Reads(Ended(c, status))
           /\ Ended(c, status).at = "done" /\ Ended(c, status).op = call[c].op
  <1>1. call[c] \in Calls
    BY DEF StoreInv, StoreTypes, CallType
  <1>2. Ended(c, status) = [Nothing EXCEPT !.op = call[c].op, !.at = "done", !.status = status]
    BY DEF Ended, Nothing
  <1>3. /\ Ended(c, status) \in Calls /\ Ended(c, status).at = "done"
        /\ Ended(c, status).op = call[c].op /\ Ended(c, status).todo = {}
        /\ Ended(c, status).status = status
    BY <1>1, <1>2, NothingFacts DEF Calls
  <1>4. QED
    BY <1>3 DEF CallType, Reads, WriteSteps

\* A restore goes on to its next entry.
LEMMA BetweenFacts ==
    ASSUME StoreInv, NEW c \in Callers, call[c].op = "restore"
    PROVE  LET new == Between(call[c])
           IN  CallType(new) /\ ~Reads(new) /\ new.at = "next" /\ new.op = "restore"
  <1>1. call[c] \in Calls /\ call[c].todo \subseteq Entries
    BY DEF StoreInv, StoreTypes, CallType
  <1>2. /\ Between(call[c]) \in Calls /\ Between(call[c]).at = "next"
        /\ Between(call[c]).op = "restore" /\ Between(call[c]).todo = call[c].todo
    BY <1>1, NothingType DEF CallType, Calls, Between
  <1>3. QED
    BY <1>1, <1>2 DEF CallType, Reads, WriteSteps

----------------------------------------------------------------------------
(* One lemma per action: those that write.                                 *)

\* A step of c that writes n, the file or its meta file.
LEMMA WriterInv ==
    ASSUME StoreInv, NEW c \in Callers, NEW n \in Names, Writes(call[c], n),
           StoreTypes', Quiet(n)', AloneInv(c)', ~Reads(call'[c]),
           call'[c].at \in WriteSteps => call'[c].name = n,
           \A m \in Names \ {n} : /\ files'[m] = files[m] /\ metas'[m] = metas[m]
                                  /\ kept'[m] = kept[m],
           \A d \in Callers \ {c} :
              \/ call'[d] = call[d]
              \/ Writes(call[d], n) /\ call'[d] = [call[d] EXCEPT !.void = TRUE]
    PROVE  StoreInv'
  <1>1. \A d \in Callers : call[d] \in Calls
    BY DEF StoreInv, StoreTypes, CallType
  <1>2. \A m \in Names, b \in Callers : Writes(call'[b], m) => Writes(call[b], m)
    <2> SUFFICES ASSUME NEW m \in Names, NEW b \in Callers, Writes(call'[b], m)
                 PROVE  Writes(call[b], m)
      OBVIOUS
    <2>1. CASE b = c
      BY <2>1 DEF Writes
    <2>2. CASE b # c /\ call'[b] = [call[b] EXCEPT !.void = TRUE]
      BY <1>1, <2>2 DEF Writes, Calls
    <2>3. CASE b # c /\ call'[b] = call[b]
      BY <2>3
    <2>4. QED
      BY <2>1, <2>2, <2>3
  <1>3. ASSUME NEW m \in Names PROVE Quiet(m)'
    <2>1. CASE m = n
      BY <2>1
    <2>2. CASE m # n
      BY <1>2, <2>2 DEF StoreInv, Quiet
    <2>3. QED
      BY <2>1, <2>2
  <1>4. CallInv(c)'
    BY DEF CallInv, UntouchedInv, ReaderInv, BackupInv, Reads
  <1>5. ASSUME NEW d \in Callers, d # c PROVE CallInv(d)'
    BY <1>2, <1>5, OthersKeep
  <1>6. QED
    BY <1>3, <1>4, <1>5 DEF StoreInv

\* What is known of a writer.
LEMMA WriterFacts ==
    ASSUME StoreInv, NEW c \in Callers, call[c].at \in WriteSteps
    PROVE  /\ call[c] \in Calls /\ CallType(call[c]) /\ call[c].name \in Names
           /\ call[c].text \in Contents /\ call[c].mode \in Modes
           /\ Writes(call[c], call[c].name) /\ ~Reads(call[c])
           /\ AloneInv(c) /\ kept[call[c].name] = Unknown
  <1>1. CallType(call[c]) /\ call[c] \in Calls /\ CallInv(c) /\ call[c].name \in Names
    BY DEF StoreInv, StoreTypes, CallType, Calls
  <1>2. Quiet(call[c].name) /\ Writes(call[c], call[c].name)
    BY <1>1 DEF StoreInv, Writes
  <1>3. QED
    BY <1>1, <1>2 DEF Quiet, CallType, Calls, Reads, CallInv

LEMMA TruncateInv ==
    ASSUME StoreInv, NEW c \in Callers, Truncate(c)
    PROVE  StoreInv' /\ call'[c].op = call[c].op
  <1>0. PICK n \in Names : n = call[c].name
    BY WriterFacts DEF Truncate, TruncateMeta, WriteSteps
  <1>1. call[c].at = "truncate" /\ call[c].at \in WriteSteps
    BY DEF Truncate, WriteSteps
  <1>2. /\ call[c] \in Calls /\ CallType(call[c]) /\ n \in Names
        /\ Writes(call[c], n) /\ ~Reads(call[c]) /\ AloneInv(c) /\ kept[n] = Unknown
    BY <1>0, <1>1, WriterFacts
  <1>3. /\ files' = [files EXCEPT ![n] = Empty] /\ metas' = metas /\ kept' = kept
        /\ call' = [call EXCEPT ![c] = [call[c] EXCEPT !.at = "write"]]
    BY <1>0 DEF Truncate, Goto
  <1>4. /\ call'[c] = [call[c] EXCEPT !.at = "write"]
        /\ \A d \in Callers \ {c} : call'[d] = call[d]
    BY <1>3 DEF StoreInv, StoreTypes
  <1>5. /\ call'[c].at = "write" /\ call'[c].name = n /\ call'[c].op = call[c].op
        /\ call'[c].alone = call[c].alone /\ call'[c].void = call[c].void
        /\ CallType(call'[c])
    BY <1>0, <1>1, <1>2, <1>4 DEF CallType, Calls, Reads, WriteSteps
  <1>6. StoreTypes'
    <2>1. files' \in [Names -> Contents \cup {NoFile}]
      BY <1>3 DEF StoreInv, StoreTypes, Contents
    <2>2. QED
      BY <1>3, <1>4, <1>5, <2>1 DEF StoreInv, StoreTypes
  <1>7. AloneInv(c)'
    <2>1. files'[n] = Empty
      BY <1>2, <1>3 DEF StoreInv, StoreTypes
    <2>2. QED
      BY <1>0, <1>1, <1>2, <1>4, <1>5, <2>1 DEF AloneInv, Writes, WriteSteps
  <1>8. \A m \in Names \ {n} : files'[m] = files[m] /\ metas'[m] = metas[m] /\ kept'[m] = kept[m]
    BY <1>3 DEF StoreInv, StoreTypes
  <1>9. Quiet(n)' /\ ~Reads(call'[c])
    BY <1>2, <1>3, <1>5 DEF Quiet, Reads
  <1>10. QED
    BY <1>2, <1>4, <1>5, <1>6, <1>7, <1>8, <1>9, WriterInv

\* Where the end of a step leads.
LEMMA AfterFacts ==
    ASSUME StoreInv, NEW c \in Callers, NEW next, CallType(next), ~Reads(next)
    PROVE  /\ CallType(After(c, next)) /\ ~Reads(After(c, next))
           /\ After(c, next).op \in {next.op, "none"}
           /\ \/ call[c].dropped /\ After(c, next).at = "idle"
              \/ ~call[c].dropped /\ After(c, next) = next
  BY NothingType DEF After, Reads

LEMMA WriteContentInv ==
    ASSUME StoreInv, NEW c \in Callers, WriteContent(c)
    PROVE  StoreInv' /\ call'[c].op \in {call[c].op, "none"}
  <1>0. PICK n \in Names : n = call[c].name
    BY WriterFacts DEF WriteContent, WriteSteps
  <1> DEFINE next == [call[c] EXCEPT !.at = "truncate_meta", !.void = FALSE]
             new  == After(c, next)
  <1>1. call[c].at = "write" /\ call[c].at \in WriteSteps
    BY DEF WriteContent, WriteSteps
  <1>2. /\ call[c] \in Calls /\ CallType(call[c]) /\ n \in Names /\ call[c].text \in Contents
        /\ Writes(call[c], n) /\ ~Reads(call[c]) /\ AloneInv(c) /\ kept[n] = Unknown
    BY <1>0, <1>1, WriterFacts
  <1>3. metas' = metas /\ kept' = kept /\ call' = [call EXCEPT ![c] = new]
    BY DEF WriteContent, Onward, Goto
  <1>4. PICK t \in {files[n], call[c].text, Garbled} :
            /\ files' = [files EXCEPT ![n] = t]
            /\ ~call[c].void /\ files[n] = Empty => t = call[c].text
    BY <1>0 DEF WriteContent
  <1>5. /\ next.at = "truncate_meta" /\ next.name = n /\ next.op = call[c].op
        /\ next.alone = call[c].alone /\ next.text = call[c].text /\ ~next.void
        /\ CallType(next) /\ ~Reads(next)
    BY <1>0, <1>1, <1>2 DEF CallType, Calls, Reads, WriteSteps
  <1> HIDE DEF next
  <1>6. /\ CallType(new) /\ ~Reads(new) /\ new.op \in {call[c].op, "none"}
        /\ new.at = "idle" \/ new = next
    BY <1>5, AfterFacts
  <1> HIDE DEF new
  <1>7. call'[c] = new /\ \A d \in Callers \ {c} : call'[d] = call[d]
    BY <1>3 DEF StoreInv, StoreTypes
  <1>8. StoreTypes'
    <2>1. t \in Contents \cup {NoFile}
      BY <1>2 DEF StoreInv, StoreTypes, Contents
    <2>2. files' \in [Names -> Contents \cup {NoFile}]
      BY <1>4, <2>1 DEF StoreInv, StoreTypes
    <2>3. QED
      BY <1>3, <1>6, <1>7, <2>2 DEF StoreInv, StoreTypes
  <1>9. AloneInv(c)'
    <2>1. files'[n] = t
      BY <1>2, <1>4 DEF StoreInv, StoreTypes
    <2>2. call[c].alone => t = call[c].text
      BY <1>0, <1>1, <1>2, <1>4 DEF AloneInv
    <2>3. call[c].alone => \A d \in Callers : Writes(call[d], n) => d = c
      BY <1>0, <1>1, <1>2 DEF AloneInv
    <2>4. CASE new.at = "idle"
      BY <1>7, <2>4 DEF AloneInv, WriteSteps
    <2>5. CASE new = next
      BY <1>5, <1>7, <2>1, <2>2, <2>3, <2>5 DEF AloneInv, Writes
    <2>6. QED
      BY <1>6, <2>4, <2>5
  <1>10. \A m \in Names \ {n} :
            files'[m] = files[m] /\ metas'[m] = metas[m] /\ kept'[m] = kept[m]
    BY <1>3, <1>4 DEF StoreInv, StoreTypes
  <1>11. Quiet(n)'
    BY <1>2, <1>3 DEF Quiet
  <1>12. new.at \in WriteSteps => new.name = n
    BY <1>5, <1>6 DEF WriteSteps
  <1>13. QED
    BY <1>2, <1>6, <1>7, <1>8, <1>9, <1>10, <1>11, <1>12, WriterInv

LEMMA TruncateMetaInv ==
    ASSUME StoreInv, NEW c \in Callers, TruncateMeta(c)
    PROVE  StoreInv' /\ call'[c].op = call[c].op
  <1>0. PICK n \in Names : n = call[c].name
    BY WriterFacts DEF Truncate, TruncateMeta, WriteSteps
  <1>1. call[c].at = "truncate_meta" /\ call[c].at \in WriteSteps
    BY DEF TruncateMeta, WriteSteps
  <1>2. /\ call[c] \in Calls /\ CallType(call[c]) /\ n \in Names
        /\ Writes(call[c], n) /\ ~Reads(call[c]) /\ AloneInv(c) /\ kept[n] = Unknown
    BY <1>0, <1>1, WriterFacts
  <1>3. /\ metas' = [metas EXCEPT ![n] = Torn] /\ files' = files /\ kept' = kept
        /\ call' = [call EXCEPT ![c] = [call[c] EXCEPT !.at = "write_meta"]]
    BY <1>0 DEF TruncateMeta, Goto
  <1>4. /\ call'[c] = [call[c] EXCEPT !.at = "write_meta"]
        /\ \A d \in Callers \ {c} : call'[d] = call[d]
    BY <1>3 DEF StoreInv, StoreTypes
  <1>5. /\ call'[c].at = "write_meta" /\ call'[c].name = n /\ call'[c].op = call[c].op
        /\ call'[c].alone = call[c].alone /\ call'[c].void = call[c].void
        /\ call'[c].text = call[c].text
        /\ CallType(call'[c])
    BY <1>0, <1>1, <1>2, <1>4 DEF CallType, Calls, Reads, WriteSteps
  <1>6. StoreTypes'
    <2>1. metas' \in [Names -> Modes \cup {Torn, NoFile}]
      BY <1>3 DEF StoreInv, StoreTypes
    <2>2. QED
      BY <1>3, <1>4, <1>5, <2>1 DEF StoreInv, StoreTypes
  <1>7. AloneInv(c)'
    <2>1. metas'[n] = Torn
      BY <1>2, <1>3 DEF StoreInv, StoreTypes
    <2>2. call[c].alone => files[n] = call[c].text /\ ~call[c].void
      BY <1>0, <1>1, <1>2 DEF AloneInv
    <2>3. call[c].alone => \A d \in Callers : Writes(call[d], n) => d = c
      BY <1>0, <1>1, <1>2 DEF AloneInv
    <2>4. QED
      BY <1>3, <1>4, <1>5, <2>1, <2>2, <2>3 DEF AloneInv, Writes
  <1>8. \A m \in Names \ {n} : files'[m] = files[m] /\ metas'[m] = metas[m] /\ kept'[m] = kept[m]
    BY <1>3 DEF StoreInv, StoreTypes
  <1>9. Quiet(n)' /\ ~Reads(call'[c])
    BY <1>2, <1>3, <1>5 DEF Quiet, Reads
  <1>10. QED
    BY <1>2, <1>4, <1>5, <1>6, <1>7, <1>8, <1>9, WriterInv

\* A writer whose last step this is.
LEMMA LastStep ==
    ASSUME StoreInv, NEW c \in Callers, NEW n \in Names, NEW new, NEW what,
           call[c].at \in WriteSteps, n = call[c].name,
           files' = files, \A m \in Names \ {n} : metas'[m] = metas[m],
           metas' \in [Names -> Modes \cup {Torn, NoFile}],
           Keep(c, what),
           what \in [text : Contents, mode : Modes] \cup {NoFile},
           \A d \in Callers \ {c} :
              \/ call'[d] = call[d]
              \/ Writes(call[d], n) /\ call'[d] = [call[d] EXCEPT !.void = TRUE],
           call' = [d \in Callers |-> call'[d]], call'[c] = new,
           CallType(new), ~Reads(new), new.at \notin WriteSteps,
           call[c].alone /\ ~call[c].dropped =>
              \/ what = NoFile /\ files[n] = NoFile
              \/ what = [text |-> files[n], mode |-> ModeOf(metas'[n])] /\ files[n] # NoFile
    PROVE  StoreInv'
  <1>1. /\ call[c] \in Calls /\ CallType(call[c])
        /\ Writes(call[c], n) /\ ~Reads(call[c]) /\ AloneInv(c) /\ kept[n] = Unknown
    BY WriterFacts
  <1>2. ASSUME NEW d \in Callers PROVE CallType(call'[d])
    <2>1. CASE d = c
      BY <2>1
    <2>2. CASE call'[d] = call[d]
      BY <2>2 DEF StoreInv, StoreTypes
    <2>3. CASE Writes(call[d], n) /\ call'[d] = [call[d] EXCEPT !.void = TRUE]
      <3>1. CallType(call[d]) /\ call[d] \in Calls
        BY DEF StoreInv, StoreTypes, CallType
      <3>2. /\ call'[d] \in Calls /\ call'[d].op = call[d].op /\ call'[d].at = call[d].at
            /\ call'[d].todo = call[d].todo /\ call'[d].status = call[d].status
        BY <2>3, <3>1 DEF Calls
      <3>3. QED
        BY <3>1, <3>2 DEF CallType, Reads
    <2>4. QED
      BY <2>1, <2>2, <2>3
  <1>3. StoreTypes'
    <2>1. kept' \in [Names -> [text : Contents, mode : Modes] \cup {NoFile, Unknown}]
      BY DEF Keep, StoreInv, StoreTypes
    <2>2. QED
      BY <1>2, <2>1 DEF StoreInv, StoreTypes
  <1>4. Quiet(n)'
    <2>1. CASE ~(call[c].alone /\ ~call[c].dropped)
      BY <1>1, <2>1 DEF Keep, Quiet
    <2>2. CASE call[c].alone /\ ~call[c].dropped
      <3>1. kept'[n] = what
        BY <2>2 DEF Keep, StoreInv, StoreTypes
      <3>2. ASSUME NEW d \in Callers PROVE ~Writes(call'[d], n)
        <4>1. CASE d = c
          BY <4>1 DEF Writes
        <4>2. CASE d # c
          BY <1>1, <2>2, <4>2 DEF AloneInv, Writes
        <4>3. QED
          BY <4>1, <4>2
      <3>3. QED
        BY <2>2, <3>1, <3>2 DEF Quiet
    <2>3. QED
      BY <2>1, <2>2
  <1>5. \A m \in Names \ {n} : kept'[m] = kept[m]
    BY DEF Keep, StoreInv, StoreTypes
  <1>6. AloneInv(c)'
    BY DEF AloneInv
  <1>7. QED
    BY <1>1, <1>3, <1>4, <1>5, <1>6, WriterInv

LEMMA WriteMetaInv ==
    ASSUME StoreInv, NEW c \in Callers, WriteMeta(c)
    PROVE  StoreInv' /\ call'[c].op \in {call[c].op, "none"}
  <1> DEFINE next == IF call[c].op = "restore" THEN Between(call[c]) ELSE Ended(c, "ok")
             new  == After(c, next)
             what == [text |-> call[c].text, mode |-> call[c].mode]
  <1>1. call[c].at = "write_meta" /\ call[c].at \in WriteSteps
    BY DEF WriteMeta, WriteSteps
  <1>2. PICK n \in Names : n = call[c].name
    BY <1>1, WriterFacts
  <1>3. /\ call[c] \in Calls /\ ~Reads(call[c]) /\ AloneInv(c)
        /\ call[c].text \in Contents /\ call[c].mode \in Modes
    BY <1>1, WriterFacts
  <1>4. /\ files' = files /\ Keep(c, what) /\ call' = [call EXCEPT ![c] = new]
    BY DEF WriteMeta, Onward, Goto
  <1>5. PICK m \in {metas[n], call[c].mode, Torn} :
            /\ metas' = [metas EXCEPT ![n] = m]
            /\ ~call[c].void /\ metas[n] = Torn => m = call[c].mode
    BY <1>2 DEF WriteMeta
  <1>6. /\ CallType(next) /\ ~Reads(next) /\ next.op = call[c].op
        /\ next.at \in {"next", "done"}
    BY <1>3, BetweenFacts, EndedFacts
  <1> HIDE DEF next
  <1>7. /\ CallType(new) /\ ~Reads(new) /\ new.op \in {call[c].op, "none"}
        /\ new.at \notin WriteSteps
    BY <1>6, AfterFacts DEF WriteSteps
  <1> HIDE DEF new
  <1>8. /\ call'[c] = new /\ \A d \in Callers \ {c} : call'[d] = call[d]
        /\ call' = [d \in Callers |-> call'[d]]
    BY <1>4 DEF StoreInv, StoreTypes
  <1>9. /\ metas' \in [Names -> Modes \cup {Torn, NoFile}] /\ metas'[n] = m
        /\ \A k \in Names \ {n} : metas'[k] = metas[k]
    BY <1>3, <1>5 DEF StoreInv, StoreTypes
  <1>10. call[c].alone => files[n] = call[c].text /\ m = call[c].mode
    BY <1>1, <1>2, <1>3, <1>5 DEF AloneInv
  <1>11. call[c].alone =>
            what = [text |-> files[n], mode |-> ModeOf(metas'[n])] /\ files[n] # NoFile
    BY <1>3, <1>9, <1>10, ModeFacts, FilesAssumption
  <1>12. what \in [text : Contents, mode : Modes]
    BY <1>3
  <1> HIDE DEF what
  <1>13. StoreInv'
    BY <1>1, <1>2, <1>4, <1>7, <1>8, <1>9, <1>11, <1>12, LastStep
  <1>14. QED
    BY <1>7, <1>8, <1>13

LEMMA RemoveMetaInv ==
    ASSUME StoreInv, NEW c \in Callers, RemoveMeta(c)
    PROVE  /\ StoreInv' /\ call'[c].op \in {call[c].op, "none"}
           /\ \A d \in Callers \ {c} : call'[d].op = call[d].op
  <1> DEFINE next == Ended(c, "ok")
             new  == After(c, next)
  <1>1. call[c].at = "remove_meta" /\ call[c].at \in WriteSteps
    BY DEF RemoveMeta, WriteSteps
  <1>2. PICK n \in Names : n = call[c].name
    BY <1>1, WriterFacts
  <1>3. call[c] \in Calls /\ ~Reads(call[c]) /\ AloneInv(c)
    BY <1>1, WriterFacts
  <1>4. /\ files' = files /\ Keep(c, NoFile)
        /\ \/ metas' = [metas EXCEPT ![n] = NoFile]
              /\ call' = [Void(n, "write_meta") EXCEPT ![c] = new]
           \/ metas' = metas /\ call' = [call EXCEPT ![c] = new]
    BY <1>2 DEF RemoveMeta, Onward, Goto
  <1>5. CallType(next) /\ ~Reads(next) /\ next.op = call[c].op /\ next.at = "done"
    BY <1>3, EndedFacts
  <1> HIDE DEF next
  <1>6. /\ CallType(new) /\ ~Reads(new) /\ new.op \in {call[c].op, "none"}
        /\ new.at \notin WriteSteps
    BY <1>5, AfterFacts DEF WriteSteps
  <1> HIDE DEF new
  <1>7. /\ call'[c] = new /\ call' = [d \in Callers |-> call'[d]]
        /\ \A d \in Callers \ {c} :
              \/ call'[d] = call[d]
              \/ Writes(call[d], n) /\ call'[d] = [call[d] EXCEPT !.void = TRUE]
    <2>1. CASE call' = [Void(n, "write_meta") EXCEPT ![c] = new]
      BY <2>1 DEF Void, Writes, WriteSteps
    <2>2. CASE call' = [call EXCEPT ![c] = new]
      BY <2>2 DEF StoreInv, StoreTypes
    <2>3. QED
      BY <1>4, <2>1, <2>2
  <1>8. /\ metas' \in [Names -> Modes \cup {Torn, NoFile}]
        /\ \A k \in Names \ {n} : metas'[k] = metas[k]
    BY <1>4 DEF StoreInv, StoreTypes
  <1>9. call[c].alone => files[n] = NoFile
    BY <1>1, <1>2, <1>3 DEF AloneInv
  <1>10. StoreInv'
    BY <1>1, <1>2, <1>4, <1>6, <1>7, <1>8, <1>9, LastStep
  <1>11. \A d \in Callers \ {c} : call'[d].op = call[d].op
    BY <1>7 DEF StoreInv, StoreTypes, CallType, Calls
  <1>12. QED
    BY <1>6, <1>7, <1>10, <1>11

LEMMA RemoveInv ==
    ASSUME StoreInv, NEW c \in Callers, RemoveContent(c)
    PROVE  /\ StoreInv' /\ call'[c].op \in {call[c].op, "none"}
           /\ \A d \in Callers \ {c} : call'[d].op = call[d].op
  <1> DEFINE next == IF files[call[c].name] = NoFile THEN Ended(c, "error")
                     ELSE [call[c] EXCEPT !.at = "remove_meta"]
             new  == After(c, next)
  <1>1. call[c].at = "remove" /\ call[c].at \in WriteSteps
    BY DEF RemoveContent, WriteSteps
  <1>2. PICK n \in Names : n = call[c].name
    BY <1>1, WriterFacts
  <1>3. /\ call[c] \in Calls /\ CallType(call[c]) /\ Writes(call[c], n) /\ ~Reads(call[c])
        /\ AloneInv(c) /\ kept[n] = Unknown
    BY <1>1, <1>2, WriterFacts
  <1>4. /\ files' = [files EXCEPT ![n] = NoFile] /\ metas' = metas /\ kept' = kept
        /\ call' = [Void(n, "write") EXCEPT ![c] = new]
    BY <1>2 DEF RemoveContent
  <1>5. /\ CallType(next) /\ ~Reads(next) /\ next.op = call[c].op
        /\ \/ next.at = "done"
           \/ /\ next.at = "remove_meta" /\ next.name = n
              /\ next.alone = call[c].alone /\ next.void = call[c].void
    <2>1. CASE files[call[c].name] = NoFile
      BY <1>3, <2>1, EndedFacts
    <2>2. CASE files[call[c].name] # NoFile
      <3>1. next = [call[c] EXCEPT !.at = "remove_meta"]
        BY <2>2
      <3>2. QED
        BY <1>1, <1>2, <1>3, <3>1 DEF CallType, Calls, Reads, WriteSteps
    <2>3. QED
      BY <2>1, <2>2
  <1> HIDE DEF next
  <1>6. /\ CallType(new) /\ ~Reads(new) /\ new.op \in {call[c].op, "none"}
        /\ new.at \in {"idle", "done"} \/ (new = next /\ new.at = "remove_meta")
    BY <1>5, AfterFacts
  <1> HIDE DEF new
  <1>7. /\ call'[c] = new /\ call' = [d \in Callers |-> call'[d]]
        /\ \A d \in Callers \ {c} :
              \/ call'[d] = call[d]
              \/ Writes(call[d], n) /\ call'[d] = [call[d] EXCEPT !.void = TRUE]
    BY <1>4 DEF Void, Writes, WriteSteps
  <1>8. /\ files' \in [Names -> Contents \cup {NoFile}] /\ files'[n] = NoFile
        /\ \A k \in Names \ {n} : files'[k] = files[k]
    BY <1>4 DEF StoreInv, StoreTypes
  <1>9. ASSUME NEW d \in Callers, d # c
        PROVE  CallType(call'[d]) /\ call'[d].op = call[d].op
                  /\ (Writes(call'[d], n) => Writes(call[d], n))
    <2>1. CASE call'[d] = call[d]
      BY <2>1 DEF StoreInv, StoreTypes
    <2>2. CASE Writes(call[d], n) /\ call'[d] = [call[d] EXCEPT !.void = TRUE]
      <3>1. CallType(call[d])
        BY DEF StoreInv, StoreTypes
      <3>2. PICK k : k = [call[d] EXCEPT !.void = TRUE]
        OBVIOUS
      <3>3. k \in Calls /\ k.op = call[d].op /\ k.at = call[d].at /\ k.name = call[d].name
            /\ k.todo = call[d].todo /\ k.status = call[d].status
        BY <3>1, <3>2 DEF CallType, Calls
      <3>4. CallType(k)
        BY <3>1, <3>3 DEF CallType, Reads
      <3>5. QED
        BY <2>2, <3>2, <3>3, <3>4
    <2>3. QED
      BY <1>7, <1>9, <2>1, <2>2
  <1>10. StoreTypes'
    BY <1>4, <1>6, <1>7, <1>8, <1>9 DEF StoreInv, StoreTypes
  <1>11. AloneInv(c)'
    <2>1. CASE new.at \in {"idle", "done"}
      BY <1>7, <2>1 DEF AloneInv, WriteSteps
    <2>2. CASE new = next /\ new.at = "remove_meta"
      <3>1. call[c].alone => ~call[c].void /\ \A d \in Callers : Writes(call[d], n) => d = c
        BY <1>1, <1>2, <1>3 DEF AloneInv
      <3>2. call[c].alone => \A d \in Callers : Writes(call'[d], n) => d = c
        BY <1>9, <3>1
      <3>3. QED
        BY <1>5, <1>7, <1>8, <2>2, <3>1, <3>2 DEF AloneInv
    <2>3. QED
      BY <1>6, <2>1, <2>2
  <1>12. Quiet(n)' /\ ~Reads(call'[c]) /\ (call'[c].at \in WriteSteps => call'[c].name = n)
    <2>1. kept'[n] = Unknown /\ call'[c] = new
      BY <1>3, <1>4, <1>7
    <2>2. new.at \in WriteSteps => new.name = n
      BY <1>5, <1>6 DEF WriteSteps
    <2>3. QED
      BY <1>6, <2>1, <2>2 DEF Quiet
  <1>13. StoreInv'
    BY <1>3, <1>4, <1>7, <1>8, <1>10, <1>11, <1>12, WriterInv
  <1>14. QED
    BY <1>6, <1>7, <1>9, <1>13

LEMMA PutInv ==
    ASSUME StoreInv, NEW c \in Callers, NEW n \in Names, NEW text \in Contents, NEW mode \in Modes,
           Put(c, n, text, mode)
    PROVE  StoreInv'
  <1> DEFINE new == [Nothing EXCEPT !.op = "put", !.at = "truncate", !.text = text, !.mode = mode]
  <1>1. CallType(new) /\ ~Reads(new) /\ new.at = "truncate"
    BY NothingFacts DEF CallType, Calls, Reads, WriteSteps
  <1>2. StartWrite(c, n, new) /\ UNCHANGED <<files, metas>>
    BY DEF Put
  <1> HIDE DEF new
  <1>3. QED
    BY <1>1, <1>2, StartWriteInv

LEMMA DeleteInv ==
    ASSUME StoreInv, NEW c \in Callers, NEW n \in Names, Delete(c, n)
    PROVE  StoreInv'
  <1>1. CASE files[n] = NoFile
    <2> DEFINE new == [Nothing EXCEPT !.op = "delete", !.at = "done", !.status = "missing"]
    <2>1. CallType(new) /\ ~Reads(new) /\ new.at \notin WriteSteps
      BY NothingFacts DEF CallType, Calls, Reads, WriteSteps
    <2>2. Goto(c, new) /\ UNCHANGED <<files, metas, kept>>
      BY <1>1 DEF Delete
    <2> HIDE DEF new
    <2>3. QED
      BY <2>1, <2>2, PlainGoto
  <1>2. CASE files[n] # NoFile
    <2> DEFINE new == [Nothing EXCEPT !.op = "delete", !.at = "remove"]
    <2>1. CallType(new) /\ ~Reads(new) /\ new.at = "remove"
      BY NothingFacts DEF CallType, Calls, Reads, WriteSteps
    <2>2. StartWrite(c, n, new) /\ UNCHANGED <<files, metas>>
      BY <1>2 DEF Delete
    <2> HIDE DEF new
    <2>3. QED
      BY <2>1, <2>2, StartWriteInv
  <1>3. QED
    BY <1>1, <1>2

LEMMA RestoreInv ==
    ASSUME StoreInv, NEW c \in Callers, NEW bundle \in SUBSET Entries, Restore(c, bundle)
    PROVE  StoreInv'
  <1> DEFINE new == [Nothing EXCEPT !.op = "restore", !.at = "next", !.todo = bundle]
  <1>1. CallType(new) /\ ~Reads(new) /\ new.at \notin WriteSteps
    BY NothingFacts DEF CallType, Calls, Reads, WriteSteps
  <1>2. Goto(c, new) /\ UNCHANGED <<files, metas, kept>>
    BY DEF Restore
  <1> HIDE DEF new
  <1>3. QED
    BY <1>1, <1>2, PlainGoto

LEMMA NextEntryInv ==
    ASSUME StoreInv, NEW c \in Callers, NextEntry(c)
    PROVE  StoreInv'
  <1>1. /\ CallType(call[c]) /\ call[c] \in Calls /\ call[c].at = "next"
        /\ call[c].op \in {"backup", "restore"}
    BY DEF NextEntry, StoreInv, StoreTypes, CallType
  <1>2. CASE call[c].op = "backup"
    BY <1>2, BackupEntryInv DEF NextEntry
  <1>3. CASE call[c].op = "restore"
    <2>1. CASE call[c].todo = {}
      <3>1. Goto(c, Ended(c, "ok")) /\ UNCHANGED <<files, metas, kept>>
        BY <2>1 DEF NextEntry
      <3>2. ~Reads(call[c])
        BY <1>3 DEF Reads
      <3>3. QED
        BY <3>1, <3>2, EndedFacts, PlainGoto DEF WriteSteps
    <2>2. CASE call[c].todo # {}
      <3>1. PICK e \in call[c].todo :
               /\ StartWrite(c, e.name, [call[c] EXCEPT !.todo = @ \ {e}, !.at = "truncate",
                                                        !.text = e.text, !.mode = e.mode])
               /\ UNCHANGED <<files, metas>>
        <4>1. PICK e \in call[c].todo :
                 StartWrite(c, e.name, [[call[c] EXCEPT !.todo = @ \ {e}]
                                EXCEPT !.at = "truncate", !.text = e.text, !.mode = e.mode])
          BY <1>3, <2>2 DEF NextEntry
        <4>2. [[call[c] EXCEPT !.todo = @ \ {e}]
                  EXCEPT !.at = "truncate", !.text = e.text, !.mode = e.mode]
               = [call[c] EXCEPT !.todo = @ \ {e}, !.at = "truncate",
                                 !.text = e.text, !.mode = e.mode]
          BY <1>1 DEF Calls
        <4>3. QED
          BY <4>1, <4>2 DEF NextEntry
      <3> DEFINE new == [call[c] EXCEPT !.todo = @ \ {e}, !.at = "truncate",
                                        !.text = e.text, !.mode = e.mode]
      <3>2. e \in Entries /\ e.name \in Names /\ e.text \in Contents /\ e.mode \in Modes
        BY <1>1, <1>3 DEF CallType, Entries
      <3>3. /\ new \in Calls /\ new.at = "truncate" /\ new.op = "restore"
            /\ new.todo = call[c].todo \ {e}
        BY <1>1, <1>3, <3>2 DEF Calls, WriteSteps
      <3> HIDE DEF new
      <3>4. CallType(new) /\ ~Reads(new)
        BY <1>1, <1>3, <3>3 DEF CallType, Reads, WriteSteps
      <3>5. QED
        BY <3>1, <3>2, <3>3, <3>4, StartWriteInv DEF new
    <2>3. QED
      BY <2>1, <2>2
  <1>4. QED
    BY <1>1, <1>2, <1>3

LEMMA FailWriteInv ==
    ASSUME StoreInv, NEW c \in Callers, FailWrite(c)
    PROVE  StoreInv'
  <1>1. call[c].at \in WriteSteps
    BY DEF FailWrite
  <1>2. QED
    BY <1>1, WriterFacts, EndedFacts, PlainGoto DEF FailWrite, WriteSteps

LEMMA HangUpInv ==
    ASSUME StoreInv, NEW c \in Callers, HangUp(c)
    PROVE  StoreInv'
  <1>1. CASE Goto(c, Nothing)
    BY <1>1, DropInv DEF HangUp, Goto
  <1>2. CASE call[c].at \in WriteSteps /\ Goto(c, [call[c] EXCEPT !.dropped = TRUE])
    <2> DEFINE new == [call[c] EXCEPT !.dropped = TRUE]
    <2>1. call[c] \in Calls /\ CallType(call[c]) /\ ~Reads(call[c]) /\ AloneInv(c)
      BY <1>2, WriterFacts
    <2>2. /\ new \in Calls /\ new.op = call[c].op /\ new.at = call[c].at
          /\ new.name = call[c].name /\ new.text = call[c].text /\ new.void = call[c].void
          /\ new.alone = call[c].alone /\ new.todo = call[c].todo /\ new.status = call[c].status
      BY <2>1 DEF Calls
    <2>3. call' = [call EXCEPT ![c] = new] /\ UNCHANGED <<files, metas, kept>>
      BY <1>2 DEF HangUp, Goto
    <2> HIDE DEF new
    <2>4. CallType(new) /\ ~Reads(new)
      BY <2>1, <2>2 DEF CallType, Reads
    <2>5. call'[c] = new /\ \A d \in Callers \ {c} : call'[d] = call[d]
      BY <2>3 DEF StoreInv, StoreTypes
    <2>6. AloneInv(c)'
      BY <2>1, <2>2, <2>3, <2>5 DEF AloneInv, Writes
    <2>7. CallInv(c)'
      BY <2>4, <2>5, <2>6 DEF CallInv, UntouchedInv, ReaderInv, BackupInv, Reads
    <2>8. QED
      BY <1>2, <2>2, <2>3, <2>4, <2>7, GotoInv
  <1>3. QED
    BY <1>1, <1>2 DEF HangUp

----------------------------------------------------------------------------
(* All together.                                                           *)

LEMMA StoreInitInv == StoreInit => StoreInv
  <1> SUFFICES ASSUME StoreInit PROVE StoreInv
    OBVIOUS
  <1>1. call = [c \in Callers |-> Nothing] /\ \A c \in Callers : call[c] = Nothing
    BY DEF StoreInit
  <1>2. PICK modes \in [Names -> Modes] :
           /\ metas = [n \in Names |-> IF files[n] = NoFile THEN NoFile ELSE modes[n]]
           /\ kept = [n \in Names |-> IF files[n] = NoFile THEN NoFile
                                      ELSE [text |-> files[n], mode |-> modes[n]]]
    BY DEF StoreInit
  <1>3. /\ files \in [Names -> Contents \cup {NoFile}]
        /\ metas \in [Names -> Modes \cup {Torn, NoFile}]
        /\ kept \in [Names -> [text : Contents, mode : Modes] \cup {NoFile, Unknown}]
    BY <1>2 DEF StoreInit, Contents
  <1>4. StoreTypes
    BY <1>1, <1>3, NothingType DEF StoreTypes
  <1>5. ASSUME NEW n \in Names PROVE Quiet(n)
    <2>1. \A c \in Callers : ~Writes(call[c], n)
      BY <1>1, NothingType DEF Writes, WriteSteps
    <2>2. ModeOf(modes[n]) = modes[n]
      BY <1>2, ModeFacts
    <2>3. QED
      BY <1>2, <2>1, <2>2 DEF Quiet
  <1>6. ASSUME NEW c \in Callers PROVE CallInv(c)
    BY <1>1, NothingType
       DEF CallInv, AloneInv, UntouchedInv, ReaderInv, BackupInv, Reads, WriteSteps
  <1>7. QED
    BY <1>4, <1>5, <1>6 DEF StoreInv

LEMMA ProceedInv ==
    ASSUME StoreInv, NEW c \in Callers, Proceed(c) \/ FailWrite(c) \/ HangUp(c)
    PROVE  StoreInv'
  BY ReadContentInv, ReadMetaInv, TruncateInv, WriteContentInv, TruncateMetaInv, WriteMetaInv,
     RemoveInv, RemoveMetaInv, NextEntryInv, FailWriteInv, HangUpInv DEF Proceed

\* A step of c does not change what the others asked for.
LEMMA OthersOps ==
    ASSUME StoreInv, NEW c \in Callers, NEW d \in Callers, d # c,
           \/ Proceed(c) \/ FailWrite(c) \/ HangUp(c) \/ Backup(c)
           \/ \E n \in Names : Delete(c, n)
           \/ \E n \in Names : \E text, mode : Put(c, n, text, mode)
           \/ \E bundle : Restore(c, bundle)
    PROVE  call'[d].op = call[d].op
  <1>1. call[d] \in Calls /\ call = [b \in Callers |-> call[b]]
    BY DEF StoreInv, StoreTypes, CallType
  <1>2. ASSUME NEW n, NEW k, StartWrite(c, n, k) PROVE call'[d].op = call[d].op
    <2>1. call'[d] = Disturb(call[d], n)
      BY <1>2 DEF StartWrite
    <2>2. QED
      BY <1>1, <2>1 DEF Disturb, Calls
  <1>3. \A k : Goto(c, k) => call'[d].op = call[d].op
    BY <1>1 DEF Goto
  <1>4. CASE RemoveContent(c) \/ RemoveMeta(c)
    BY <1>4, RemoveInv, RemoveMetaInv
  <1>5. QED
    BY <1>2, <1>3, <1>4
       DEF Proceed, FailWrite, HangUp, Backup, Delete, Put, Restore, ReadContent, ReadMeta,
           Truncate, WriteContent, TruncateMeta, WriteMeta, NextEntry, Onward

\* Who asked for a template, or for nothing, goes on asking for it.
LEMMA ReaderOps ==
    ASSUME StoreInv, NEW c \in Callers, Proceed(c), call[c].op \in {"none", "get"}
    PROVE  call'[c].op = call[c].op
  <1>1. CallType(call[c])
    BY DEF StoreInv, StoreTypes
  <1>2. call[c].at \notin WriteSteps \cup {"next"}
    BY <1>1 DEF CallType
  <1>3. ReadContent(c) \/ ReadMeta(c)
    BY <1>2 DEF Proceed, Truncate, WriteContent, TruncateMeta, WriteMeta, RemoveContent, RemoveMeta,
                NextEntry, WriteSteps
  <1>4. QED
    BY <1>3, ReadContentInv, ReadMetaInv

LEMMA ReadsWholeInv == StoreInv => ReadsWhole
  BY DEF StoreInv, CallInv, ReaderInv, BackupInv, Reads, ReadsWhole, StoreTypes, CallType

LEMMA StoreStutter ==
    ASSUME StoreInv, UNCHANGED store
    PROVE  StoreInv'
  <1>1. UNCHANGED <<files, metas, call, kept>>
    BY DEF store
  <1>2. StoreTypes'
    BY <1>1 DEF StoreInv, StoreTypes
  <1>3. ASSUME NEW n \in Names PROVE Quiet(n)'
    BY <1>1 DEF StoreInv, Quiet
  <1>4. ASSUME NEW c \in Callers PROVE CallInv(c)'
    <2>1. CallInv(c)
      BY DEF StoreInv
    <2>2. QED
      BY <1>1, <2>1 DEF CallInv, AloneInv, UntouchedInv, ReaderInv, BackupInv, Shows
  <1>5. QED
    BY <1>2, <1>3, <1>4 DEF StoreInv
=============================================================================
