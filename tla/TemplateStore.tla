---------------------------- MODULE TemplateStore ----------------------------
(***************************************************************************)
(* The template store of src/templates.rs on the PVC: beside every template*)
(* file lies a .meta.json with its mode. There is no lock. put truncates   *)
(* and writes the one, then the other; get looks for the file, reads it,   *)
(* then reads its meta; delete removes the one, then the other. Each of    *)
(* these runs on a blocking thread between two awaits of the handler; when *)
(* the client hangs up the handler is dropped there and its last file      *)
(* operation goes on alone. A stop of the process leaves the files as      *)
(* writes that fail do.                                                    *)
(*                                                                         *)
(* Timestamps are left out; a directory is listed in one step, in any      *)
(* order.                                                                  *)
(***************************************************************************)
EXTENDS Naturals, Sequences

CONSTANTS
    Names,      \* template files: an image type and a file name
    Extensions, \* Names -> names with .ign.json, .ks, .yaml appended, in that order
    Texts,      \* contents that templates are put with
    Empty,      \* a truncated file
    Garbled,    \* one content written over a longer one
    Torn,       \* a meta file that does not parse
    NoFile,     \* no such file
    Unknown,    \* history: writes of the file overlapped, or one failed
    Callers     \* requests to the store

Modes    == {"oneshot", "forever"}
Contents == Texts \cup {Empty, Garbled}

ASSUME NamesAssumption == Names # {} /\ Extensions \in [Names -> Seq(Names)]
ASSUME FilesAssumption == NoFile \notin Contents

VARIABLES
    files,      \* content of each template file
    metas,      \* its meta file: the mode
    call,       \* what each caller asked for and where it is
    kept        \* history: what the last undisturbed put or delete left

store == <<files, metas, call, kept>>

Nothing == [op |-> "none", at |-> "idle", name |-> CHOOSE n \in Names : TRUE,
            text |-> Empty, mode |-> "forever", status |-> "none",
            todo |-> {}, got |-> {}, dropped |-> FALSE, void |-> FALSE,
            alone |-> FALSE, touched |-> {}]

Free(c) == call[c].at \in {"idle", "done"}

WriteSteps == {"truncate", "write", "truncate_meta", "write_meta", "remove", "remove_meta"}

\* A file operation that goes on behind a dropped handler counts.
WritersOf(n) == {c \in Callers : call[c].at \in WriteSteps /\ call[c].name = n}

\* The first name under which a file is there (an Option): as asked for, else
\* with an extension.
Found(n) ==
    LET tried == <<n>> \o Extensions[n]
    IN  {tried[i] : i \in {j \in DOMAIN tried :
            files[tried[j]] # NoFile /\ \A k \in 1 .. (j - 1) : files[tried[k]] = NoFile}}

\* Mutation of ModeOf: what a meta file holds is taken as it is.
ModeAsStored(meta) == meta

\* read_meta: a meta file that is missing or does not parse means the default.
ModeOf(meta) == IF meta \in Modes THEN meta ELSE "forever"

----------------------------------------------------------------------------
(* History: a write of n disturbs every other operation that is going on.  *)

Reads(k) == k.op \in {"get", "backup"}

Disturb(k, n) ==
    [k EXCEPT !.touched = IF Reads(k) THEN @ \cup {n} ELSE @, !.alone = @ /\ k.name # n]

\* c goes on as `new`, which starts to write n.
StartWrite(c, n, new) ==
    /\ call' = [d \in Callers |->
                  IF d = c THEN [new EXCEPT !.name = n, !.alone = WritersOf(n) = {},
                                            !.void = FALSE]
                  ELSE Disturb(call[d], n)]
    /\ kept' = [kept EXCEPT ![n] = Unknown]

Goto(c, k) == call' = [call EXCEPT ![c] = k]

\* Of a call that has ended only what it reports is left.
Ended(c, status) ==
    [(IF Reads(call[c]) THEN call[c] ELSE [Nothing EXCEPT !.op = call[c].op])
        EXCEPT !.at = "done", !.status = status]

\* The end of a step: a dropped handler does not go on to the next one.
After(c, next) == IF call[c].dropped THEN Nothing ELSE next

Onward(c, next) == Goto(c, After(c, next))

\* Between two entries of a backup or a restore.
Between(k) == [Nothing EXCEPT !.op = k.op, !.at = "next", !.todo = k.todo, !.got = k.got,
                              !.touched = k.touched]

Keep(c, what) ==
    kept' = IF call[c].alone /\ ~call[c].dropped
            THEN [kept EXCEPT ![call[c].name] = what] ELSE kept

----------------------------------------------------------------------------
StoreInit ==
    /\ files \in [Names -> Texts \cup {NoFile}]
    /\ \E modes \in [Names -> Modes] :
          /\ metas = [n \in Names |-> IF files[n] = NoFile THEN NoFile ELSE modes[n]]
          /\ kept = [n \in Names |-> IF files[n] = NoFile THEN NoFile
                                     ELSE [text |-> files[n], mode |-> modes[n]]]
    /\ call = [c \in Callers |-> Nothing]

(* get, by itself or for each template of a backup.                        *)

Reading(c, n, k) ==
    IF Found(n) = {}
    THEN IF k.op = "backup" THEN Between(k)
                            ELSE [k EXCEPT !.at = "done", !.status = "missing"]
    ELSE [k EXCEPT !.at = "read", !.name = CHOOSE m \in Found(n) : TRUE]

Get(c, n) ==
    /\ Free(c)
    /\ Goto(c, Reading(c, n,
           [Nothing EXCEPT !.op = "get", !.name = n,
                           !.touched = {m \in Names : WritersOf(m) # {}}]))
    /\ UNCHANGED <<files, metas, kept>>

\* The file may be gone since it was found: an error, which ends a backup.
ReadContent(c) ==
    /\ call[c].at = "read"
    /\ LET found == files[call[c].name]
       IN  Goto(c, IF found = NoFile THEN Ended(c, "error")
                   ELSE [call[c] EXCEPT !.at = "read_meta", !.text = found])
    /\ UNCHANGED <<files, metas, kept>>

ReadMeta(c) ==
    /\ call[c].at = "read_meta"
    /\ LET k == [call[c] EXCEPT !.mode = ModeOf(metas[call[c].name])]
       IN  Goto(c, IF k.op = "get" THEN [k EXCEPT !.at = "done", !.status = "found"]
                   ELSE Between([k EXCEPT !.got = @ \cup
                           {[name |-> k.name, text |-> k.text, mode |-> k.mode]}]))
    /\ UNCHANGED <<files, metas, kept>>

----------------------------------------------------------------------------
(* put, by itself or for each entry of a bundle.                           *)

Put(c, n, text, mode) ==
    /\ Free(c)
    /\ StartWrite(c, n, [Nothing EXCEPT !.op = "put", !.at = "truncate",
                                        !.text = text, !.mode = mode])
    /\ UNCHANGED <<files, metas>>

Truncate(c) ==
    /\ call[c].at = "truncate"
    /\ files' = [files EXCEPT ![call[c].name] = Empty]
    /\ Goto(c, [call[c] EXCEPT !.at = "write"])
    /\ UNCHANGED <<metas, kept>>

\* Another writer may have written since (each writes from the start of the
\* file), or the file may have been removed: then the write reaches no name.
WriteContent(c) ==
    /\ call[c].at = "write"
    /\ LET n == call[c].name
       IN  files' \in {[files EXCEPT ![n] = t] :
                         t \in IF call[c].void THEN {files[n]}
                               ELSE IF files[n] = Empty THEN {call[c].text}
                               ELSE {call[c].text, Garbled}}
    /\ Onward(c, [call[c] EXCEPT !.at = "truncate_meta", !.void = FALSE])
    /\ UNCHANGED <<metas, kept>>

TruncateMeta(c) ==
    /\ call[c].at = "truncate_meta"
    /\ metas' = [metas EXCEPT ![call[c].name] = Torn]
    /\ Goto(c, [call[c] EXCEPT !.at = "write_meta"])
    /\ UNCHANGED <<files, kept>>

\* Mutation of WriteMeta: the mode asked for is forgotten.
WriteMetaDefault(c) ==
    /\ call[c].at = "write_meta"
    /\ metas' = [metas EXCEPT ![call[c].name] = "forever"]
    /\ Keep(c, [text |-> call[c].text, mode |-> call[c].mode])
    /\ Onward(c, IF call[c].op = "restore" THEN Between(call[c]) ELSE Ended(c, "ok"))
    /\ UNCHANGED files

WriteMeta(c) ==
    /\ call[c].at = "write_meta"
    /\ LET n == call[c].name
       IN  metas' \in {[metas EXCEPT ![n] = m] :
                         m \in IF call[c].void THEN {metas[n]}
                               ELSE IF metas[n] = Torn THEN {call[c].mode}
                               ELSE {call[c].mode, Torn}}
    /\ Keep(c, [text |-> call[c].text, mode |-> call[c].mode])
    /\ Onward(c, IF call[c].op = "restore" THEN Between(call[c]) ELSE Ended(c, "ok"))
    /\ UNCHANGED files

----------------------------------------------------------------------------
(* delete: 404 without the file; a meta file that stays is no error.       *)

\* A file removed between a writer's truncation and its write has no name left.
Void(n, step) ==
    [d \in Callers |-> IF call[d].name = n /\ call[d].at = step
                       THEN [call[d] EXCEPT !.void = TRUE] ELSE call[d]]

Delete(c, n) ==
    /\ Free(c)
    /\ IF files[n] = NoFile
       THEN /\ Goto(c, [Nothing EXCEPT !.op = "delete", !.at = "done", !.status = "missing"])
            /\ UNCHANGED kept
       ELSE StartWrite(c, n, [Nothing EXCEPT !.op = "delete", !.at = "remove"])
    /\ UNCHANGED <<files, metas>>

RemoveContent(c) ==
    /\ call[c].at = "remove"
    /\ LET n == call[c].name
           k == IF files[n] = NoFile THEN Ended(c, "error")
                ELSE [call[c] EXCEPT !.at = "remove_meta"]
       IN  /\ files' = [files EXCEPT ![n] = NoFile]
           /\ call' = [Void(n, "write") EXCEPT ![c] = After(c, k)]
    /\ UNCHANGED <<metas, kept>>

RemoveMeta(c) ==
    /\ call[c].at = "remove_meta"
    /\ LET n == call[c].name
       IN  \/ /\ metas' = [metas EXCEPT ![n] = NoFile]
              /\ call' = [Void(n, "write_meta") EXCEPT ![c] = After(c, Ended(c, "ok"))]
           \/ /\ Onward(c, Ended(c, "ok"))
              /\ UNCHANGED metas
    /\ Keep(c, NoFile)
    /\ UNCHANGED files

----------------------------------------------------------------------------
(* backup gets every template listed, restore puts every entry of a bundle:*)
(* the first error ends either.                                            *)

Backup(c) ==
    /\ Free(c)
    /\ Goto(c, [Nothing EXCEPT !.op = "backup", !.at = "next",
                   !.todo = {n \in Names : files[n] # NoFile},
                   !.touched = {m \in Names : WritersOf(m) # {}}])
    /\ UNCHANGED <<files, metas, kept>>

Restore(c, bundle) ==
    /\ Free(c)
    /\ Goto(c, [Nothing EXCEPT !.op = "restore", !.at = "next", !.todo = bundle])
    /\ UNCHANGED <<files, metas, kept>>

NextEntry(c) ==
    /\ call[c].at = "next"
    /\ LET k == call[c]
       IN  \/ /\ k.todo = {}
              /\ Goto(c, Ended(c, "ok"))
              /\ UNCHANGED kept
           \/ \E e \in k.todo :
                 LET rest == [k EXCEPT !.todo = @ \ {e}]
                 IN  IF k.op = "backup"
                     THEN Goto(c, Reading(c, e, rest)) /\ UNCHANGED kept
                     ELSE StartWrite(c, e.name,
                            [rest EXCEPT !.at = "truncate", !.text = e.text, !.mode = e.mode])
    /\ UNCHANGED <<files, metas>>

----------------------------------------------------------------------------
(* A file operation fails: 500. The handler is dropped: a file operation   *)
(* already handed to its thread goes on.                                   *)

FailWrite(c) ==
    /\ call[c].at \in WriteSteps \ {"remove_meta"} /\ ~call[c].dropped
    /\ Goto(c, Ended(c, "error"))
    /\ UNCHANGED <<files, metas, kept>>

HangUp(c) ==
    /\ ~Free(c) /\ ~call[c].dropped
    /\ \/ /\ call[c].at \notin {"write", "write_meta"}
          /\ Goto(c, Nothing)
       \/ /\ call[c].at \in WriteSteps
          /\ Goto(c, [call[c] EXCEPT !.dropped = TRUE])
    /\ UNCHANGED <<files, metas, kept>>

Proceed(c) ==
    \/ ReadContent(c) \/ ReadMeta(c)
    \/ Truncate(c) \/ WriteContent(c) \/ TruncateMeta(c) \/ WriteMeta(c)
    \/ RemoveContent(c) \/ RemoveMeta(c) \/ NextEntry(c)

----------------------------------------------------------------------------
(* Properties.                                                             *)

Entries == [name : Names, text : Contents, mode : Modes]

StoreTypeOK ==
    /\ files \in [Names -> Contents \cup {NoFile}]
    /\ metas \in [Names -> Modes \cup {Torn, NoFile}]
    /\ kept \in [Names -> [text : Contents, mode : Modes] \cup {NoFile, Unknown}]
    /\ \A c \in Callers :
          /\ call[c].op \in {"none", "get", "put", "delete", "backup", "restore"}
          /\ call[c].at \in {"idle", "done", "read", "read_meta", "next"} \cup WriteSteps
          /\ call[c].name \in Names /\ call[c].text \in Contents /\ call[c].mode \in Modes
          /\ call[c].got \subseteq Entries /\ call[c].todo \subseteq Names \cup Entries

\* What is kept of n, as an answer about n must show it.
Shows(n, e) == kept[n] \in {Unknown, [text |-> e.text, mode |-> e.mode]}

\* A get or a backup during which nobody wrote a template reports it whole, the
\* content and the mode of the last put that was itself undisturbed, whatever
\* dropped handlers, failed writes and leftover meta files came before; and it
\* reports no template missing that such a put stored.
ReadsWhole ==
    \A c \in Callers : call[c].at = "done" =>
        /\ call[c].status = "found" /\ call[c].name \notin call[c].touched
              => Shows(call[c].name, call[c])
        /\ call[c].op = "backup" =>
              \A e \in call[c].got : e.name \notin call[c].touched => Shows(e.name, e)
        /\ call[c].op = "get" /\ call[c].status = "missing"
              /\ call[c].name \notin call[c].touched
              => kept[call[c].name] \in {Unknown, NoFile}
        /\ call[c].op = "backup" /\ call[c].status = "ok" =>
              \A n \in Names \ call[c].touched :
                  kept[n] \in {Unknown, NoFile} \/ \E e \in call[c].got : e.name = n
=============================================================================
