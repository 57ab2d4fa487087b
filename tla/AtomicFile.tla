----------------------------- MODULE AtomicFile -----------------------------
(***************************************************************************)
(* What atom.c promises: a file that changes only as a whole.  A process   *)
(* that has the file open works on a view of its own; closing the file     *)
(* puts the view in place of the contents, and aborting or crashing loses  *)
(* the view and nothing else.  A reader's view stays what it was.          *)
(***************************************************************************)
EXTENDS Integers

CONSTANTS Procs, NoView,
          Byte,         \* what a position can hold
          Start         \* the contents at the start

VARIABLES contents,     \* position -> byte; 0 past the end of what was written
          view          \* process -> contents, or NoView

fileVars == << contents, view >>

FileInit == contents = Start /\ view = [p \in Procs |-> NoView]

Begin(p) ==
    /\ view[p] = NoView
    /\ view' = [view EXCEPT ![p] = contents]
    /\ UNCHANGED contents

\* p alone has the file open: it changes a part of its view.
Change(p, from, to, v) ==
    /\ view[p] # NoView
    /\ \A q \in Procs \ {p} : view[q] = NoView
    /\ view' = [view EXCEPT ![p] = [k \in DOMAIN @ |-> IF k \in from .. to THEN v ELSE @[k]]]
    /\ UNCHANGED contents

Commit(p) ==
    /\ view[p] # NoView
    /\ \A q \in Procs \ {p} : view[q] = NoView
    /\ contents' = view[p]
    /\ view' = [view EXCEPT ![p] = NoView]

Drop(p) ==
    /\ view[p] # NoView
    /\ view' = [view EXCEPT ![p] = NoView]
    /\ UNCHANGED contents

FileNext ==
    \E p \in Procs :
       \/ Begin(p) \/ Commit(p) \/ Drop(p)
       \/ \E from, to \in DOMAIN contents, v \in Byte : Change(p, from, to, v)

FileSpec == FileInit /\ [][FileNext]_fileVars

=============================================================================
