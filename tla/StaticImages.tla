---------------------------- MODULE StaticImages ----------------------------
(***************************************************************************)
(* The images of tokens (StaticHandler): a request compares the time of    *)
(* the stored file with the time the token was updated, fetches the image  *)
(* if it is outdated, writes it in several sizes and answers from the      *)
(* directory.  Requests run beside each other and beside updates of the    *)
(* token, a client may go away, and a write to a file may happen after the *)
(* call that asked for it has returned.                                    *)
(***************************************************************************)
EXTENDS Integers, Sequences, FiniteSets, TLC

CONSTANTS
    Request,        \* clients, each with one request at a time
    SizeOf,         \* the size each of them asks for, "base" or "small"
    Raster, Svg,    \* the kinds of images, which are kept under different names
    None,
    MaxVersion,     \* bound: updates of the token
    MaxTime,        \* bound: seconds
    MaxServed,      \* bound: answered requests
    MaxFaults       \* bound: failed reads and fetches, late writes, clients that leave

VARIABLES
    now,            \* the clock, in seconds
    token,          \* the row: the version of its image, its format and updated_at
    files,          \* the directory: content and modification time of each file
    late,           \* writes handed to a thread that have not happened
    task,           \* each request
    copy,           \* what each client keeps of its last answer
    stale,          \* a client that should not have was left with an old image
    served, faults,
    disturbed       \* something happened that may leave an old image in place

imageVars == <<now, token, files, late, task, copy, stale, served, faults, disturbed>>

Format == {Raster, Svg}
Partial == 0                            \* the content of a file that was only created
Bases == {f \in Format : <<f, "base">> \in DOMAIN files}

Idle == [pc |-> "idle", since |-> 0, alone |-> FALSE, mtime |-> None, outdated |-> FALSE, stamp |-> 0,
         version |-> 0, format |-> Raster, todo |-> << >>, stage |-> "create"]

(* A request that has begun to write and has not written all. *)
Writing(r) == task[r].pc = "write" /\ (task[r].stage # "create" \/ Len(task[r].todo) = 1)
              /\ ~(task[r].format = Svg /\ task[r].stage = "create")

(* Another image is being written. *)
OthersWrite(r) ==
    \/ \E q \in Request \ {r} : Writing(q) /\ task[q].version # task[r].version
    \/ \E w \in late : w.content # task[r].version

Fault == faults < MaxFaults /\ faults' = faults + 1

Store(name, content) == name :> [content |-> content, mtime |-> now] @@ files

-----------------------------------------------------------------------------
serve_static_file(r) ==
    LET alone == \A q \in Request : task[q].pc = "idle"
    IN  /\ task[r].pc = "idle" /\ served < MaxServed
        /\ task' = [q \in Request |->
                      IF q = r THEN [Idle EXCEPT !.pc = "check", !.since = token.version,
                                                 !.alone = alone]
                      ELSE [task[q] EXCEPT !.alone = FALSE]]
        /\ served' = served + 1
        /\ UNCHANGED <<now, token, files, late, copy, stale, faults, disturbed>>

(* The first file of the directory that is an image in full size is looked at,
   then the row is read.  A row that cannot be read, now or before, has no file
   taken for current. *)
ModifiedTime(r) ==
    /\ task[r].pc = "check"
    /\ \/ Bases = {} /\ task' = [task EXCEPT ![r].pc = "stamp", ![r].outdated = TRUE]
       \/ \E f \in Bases : task' = [task EXCEPT ![r].pc = "compare",
                                                ![r].mtime = files[<<f, "base">>].mtime]
    /\ UNCHANGED <<now, token, files, late, copy, stale, served, faults, disturbed>>

check_if_image_outdated(r) ==
    /\ task[r].pc = "compare"
    /\ \E readable \in BOOLEAN :
         /\ IF readable THEN UNCHANGED faults ELSE Fault
         /\ task' = [task EXCEPT ![r].pc = "stamp", ![r].mtime = None,
                                 ![r].outdated = (readable => token.updated_at > task[r].mtime)]
    /\ UNCHANGED <<now, token, files, late, copy, stale, served, disturbed>>

(* Without a time, the files keep the time at which they were written. *)
get_token_updated_at(r) ==
    /\ task[r].pc = "stamp"
    /\ \E stamp \in {token.updated_at, None} :
         /\ IF stamp = None THEN Fault ELSE UNCHANGED faults
         /\ task' = [task EXCEPT ![r].pc = IF task[r].outdated THEN "metadata" ELSE "serve",
                                 ![r].stamp = IF task[r].outdated THEN stamp ELSE 0]
         /\ disturbed' = (disturbed \/ (task[r].outdated /\ stamp = None))
    /\ UNCHANGED <<now, token, files, late, copy, stale, served>>

(* fetch_and_process_image: the metadata names the image ... *)
ReadMetadata(r) ==
    /\ task[r].pc = "metadata"
    /\ task' = [task EXCEPT ![r].pc = "fetch", ![r].version = token.version,
                            ![r].format = token.format]
    /\ UNCHANGED <<now, token, files, late, copy, stale, served, faults, disturbed>>

(* ... which is fetched and decoded, or not, ... *)
FetchImage(r) ==
    /\ task[r].pc = "fetch"
    /\ \/ task' = [task EXCEPT ![r].pc = "write",
                               ![r].todo = IF task[r].format = Svg THEN <<"base">>
                                           ELSE <<"base", "small">>]
          /\ UNCHANGED faults
       \/ task' = [task EXCEPT ![r] = Idle] /\ Fault
    /\ UNCHANGED <<now, token, files, late, copy, stale, served, disturbed>>

(* ... and written, file by file: created, written and given the time of the
   token.  write_all returns when the write is handed to a thread. *)
CreateFile(r) ==
    /\ task[r].pc = "write" /\ task[r].stage = "create"
    /\ files' = Store(<<task[r].format, Head(task[r].todo)>>, Partial)
    /\ task' = [task EXCEPT ![r].stage = "write"]
    /\ disturbed' = (disturbed \/ OthersWrite(r))
    /\ UNCHANGED <<now, token, late, copy, stale, served, faults>>

WriteAll(r) ==
    LET name == <<task[r].format, Head(task[r].todo)>>
    IN  /\ task[r].pc = "write" /\ task[r].stage = "write"
        /\ \/ files' = Store(name, task[r].version) /\ UNCHANGED <<late, faults>>
           \/ late' = late \cup {[name |-> name, content |-> task[r].version]} /\ files' = files /\ Fault
        /\ task' = [task EXCEPT ![r].stage = "stamp"]
        /\ disturbed' = (disturbed \/ OthersWrite(r))
        /\ UNCHANGED <<now, token, copy, stale, served>>

LateWrite(w) ==
    /\ late' = late \ {w}
    /\ files' = Store(w.name, w.content)
    /\ disturbed' = (disturbed \/ w.content # token.version
                     \/ \E r \in Request : Writing(r) /\ task[r].version # w.content)
    /\ UNCHANGED <<now, token, task, copy, stale, served, faults>>

(* Mutant: the file gets the time the token has by then. *)
set_file_timestamp_latest(r) ==
    LET name == <<task[r].format, Head(task[r].todo)>>
        todo == Tail(task[r].todo)
    IN  /\ task[r].pc = "write" /\ task[r].stage = "stamp"
        /\ \E ok \in BOOLEAN :
              /\ IF ok THEN UNCHANGED faults ELSE Fault
              /\ files' = [files EXCEPT ![name].mtime = IF task[r].stamp = None \/ ~ok THEN @ ELSE token.updated_at]
              /\ disturbed' = (disturbed \/ OthersWrite(r) \/ ~ok)
        /\ task' = [task EXCEPT ![r].stage = "create", ![r].todo = todo,
                                ![r].pc = IF todo = << >> THEN "serve" ELSE "write"]
        /\ UNCHANGED <<now, token, late, copy, stale, served>>

(* A failure is logged: the file keeps the time at which it was written. *)
set_file_timestamp(r) ==
    LET name == <<task[r].format, Head(task[r].todo)>>
        todo == Tail(task[r].todo)
    IN  /\ task[r].pc = "write" /\ task[r].stage = "stamp"
        /\ \E ok \in BOOLEAN :
              /\ IF ok THEN UNCHANGED faults ELSE Fault
              /\ files' = [files EXCEPT ![name].mtime = IF task[r].stamp = None \/ ~ok THEN @ ELSE task[r].stamp]
              /\ disturbed' = (disturbed \/ OthersWrite(r) \/ ~ok)
        /\ task' = [task EXCEPT ![r].stage = "create", ![r].todo = todo,
                                ![r].pc = IF todo = << >> THEN "serve" ELSE "write"]
        /\ UNCHANGED <<now, token, late, copy, stale, served>>

-----------------------------------------------------------------------------
(* The file of the size asked for, in the format of the first file in full
   size, if there is one.  The client need not be sent what its copy agrees with
   by content or by time.  A request that was alone, with nothing out of the
   ordinary before it, leaves its client with an image that is not older. *)
Answer(r) ==
    /\ task[r].pc = "serve"
    /\ \/ /\ Bases = {} \/ \E f \in Bases : <<f, SizeOf[r]>> \notin DOMAIN files
          /\ UNCHANGED <<copy, stale>>
       \/ \E f \in {g \in Bases : <<g, SizeOf[r]>> \in DOMAIN files} :
            LET file == files[<<f, SizeOf[r]>>]
                clean == task[r].alone /\ ~disturbed /\ late = {}
                notModified == /\ copy[r] # None
                               /\ copy[r].content = file.content \/ file.mtime <= copy[r].mtime
            IN  /\ IF notModified THEN UNCHANGED copy
                   ELSE copy' = [copy EXCEPT ![r] = [content |-> file.content, mtime |-> file.mtime,
                                                     clean |-> clean]]
                /\ stale' = (stale \/ (clean /\ copy'[r].clean
                                       /\ copy'[r].content < task[r].since))
    /\ task' = [task EXCEPT ![r] = Idle]
    /\ UNCHANGED <<now, token, files, late, served, faults, disturbed>>

(* The client goes away, which ends the request where it waits, or a file cannot
   be written.  This leaves something behind only if files are being written. *)
Leave(r) ==
    /\ task[r].pc = "write"
    /\ task' = [task EXCEPT ![r] = Idle]
    /\ disturbed' = (disturbed \/ Writing(r)) /\ Fault
    /\ UNCHANGED <<now, token, files, late, copy, stale, served>>

(* The metadata of the token is updated: the row has the time of the statement,
   and is seen once the transaction is committed.  The next request follows
   unless a file is not older, or one of another format remains. *)
Update(format, at) ==
    /\ token.version < MaxVersion
    /\ token' = [version |-> token.version + 1, format |-> format, updated_at |-> at]
    /\ disturbed' = \/ at = token.updated_at \/ format # token.format
                    \/ \E n \in DOMAIN files : files[n].mtime >= at
                    \/ Bases \ {format} # {}
                    \/ disturbed /\ (late # {} \/ \E r \in Request : task[r].pc # "idle")
    /\ UNCHANGED <<now, files, late, task, copy, stale, served, faults>>

Tick ==
    /\ now < MaxTime
    /\ now' = now + 1
    /\ UNCHANGED <<token, files, late, task, copy, stale, served, faults, disturbed>>

Init ==
    /\ now = 1
    /\ \E f \in Format : token = [version |-> 1, format |-> f, updated_at |-> 0]
    /\ files = << >> /\ late = {}
    /\ task = [r \in Request |-> Idle]
    /\ copy = [r \in Request |-> None]
    /\ stale = FALSE /\ served = 0 /\ faults = 0 /\ disturbed = FALSE

Next ==
    \/ \E r \in Request :
         \/ serve_static_file(r) \/ ModifiedTime(r) \/ check_if_image_outdated(r)
         \/ get_token_updated_at(r) \/ ReadMetadata(r)
         \/ FetchImage(r) \/ CreateFile(r) \/ WriteAll(r) \/ set_file_timestamp(r)
         \/ Answer(r) \/ Leave(r)
    \/ \E w \in late : LateWrite(w)
    \/ \E f \in Format, at \in token.updated_at..now : Update(f, at)
    \/ Tick

Spec == Init /\ [][Next]_imageVars

-----------------------------------------------------------------------------
(* No old image stays: when nothing is being written, a stored image that the
   check takes for current is that of the token, in every size.  What a client
   has after an answer is not older than when it asked.  Both hold unless two
   requests wrote different images at once, a write came late, a client left or
   a step failed while files were written, the row was not readable when its time
   was asked for, an update was committed with a time that a file or the row
   already had, or the image changed its format (serve_static_file, fetch_and_process_image). *)
ImagesCurrent ==
    /\ ~disturbed /\ late = {} /\ (\A r \in Request : ~Writing(r)) =>
         \A f \in Bases :
             files[<<f, "base">>].mtime >= token.updated_at =>
                 \A size \in IF f = Svg THEN {"base"} ELSE {"base", "small"} :
                     files[<<f, size>>].content = token.version
    /\ ~stale
=============================================================================
