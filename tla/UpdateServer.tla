---------------------------- MODULE UpdateServer ----------------------------
(***************************************************************************)
(* The update server of a host (third/moira/update): what its two requests *)
(* do to the file a service's data is sent to and to what is installed.    *)
(* XFER_002 unlinks the file at its final name first, fills a new one with *)
(* zeros to see that there is room, writes the data over them and compares *)
(* the checksum of whatever has the name then.  EXEC_002 runs a script     *)
(* that installs the file and removes it.                                  *)
(*                                                                         *)
(* A host is a record: path, the connection that created the file at the   *)
(* target's name and the file's data, and inst, the data installed.  Data  *)
(* is a version of the service's data or Partial; a failure leaves no      *)
(* memory but the files, each connection being a process of its own.       *)
(***************************************************************************)
EXTENDS Integers

CONSTANTS NoFile,     \* there is no file at the target's name
          Partial,    \* zeros, or a part or a mixture of some version
          Nobody      \* the creator of no file

NewHost == [path |-> [by |-> Nobody, data |-> NoFile], inst |-> 0]

\* get_file, first half: the old file is unlinked, then a new one created and filled.
Created(h, c) == [h EXCEPT !.path = [by |-> c, data |-> Partial]]
Unlinked(h) == [h EXCEPT !.path = [by |-> Nobody, data |-> NoFile]]

\* write: connection c has the file it created open; if that was unlinked since,
\* by another connection, nobody sees what is written.
Written(h, c, data) == IF h.path.by = c THEN [h EXCEPT !.path.data = data] ELSE h

\* The ways the data of a transfer can end, with what the sender is told: all written
\* and the checksum of the file now at the name compared with the one announced; a
\* write failed and the name was unlinked; the connection went and recv_string left
\* the process; or the file is written and the last answer is lost.
Received(h, c, said, data) ==
    LET w == Written(h, c, data)
    IN  { << w, IF w.path.data = said THEN "ok" ELSE "hard" >> }
        \cup { << Unlinked(h), "hard" >>, << h, "hard" >>, << w, "hard" >> }

\* The first half of a transfer: the file is there, filled with zeros, or it could
\* not be created, or there is no room for it.  The old file is gone in any case.
Accepted(h, c) == { << Created(h, c), "ok" >>, << Unlinked(h), "hard" >> }

\* The script (hesiod.sh; the others are like it): it extracts the file, moves its
\* parts into place, has the service started again and removes the file.  It refuses a
\* missing file, and may fail with some parts or all of them in place.  Of a partial file,
\* filled up with zeros, tar may make something and succeed; that is left out, as a run
\* never has a file executed that it has not sent whole.
Script(h) ==
    LET moved == [h EXCEPT !.inst = h.path.data]
        half  == [h EXCEPT !.inst = Partial]
    IN  IF h.path.data \in {NoFile, Partial}
        THEN { << h, FALSE >> }
        ELSE { << Unlinked(moved), TRUE >>, << moved, FALSE >>, << half, FALSE >> }

\* exec_002: the script's exit status is added to ERROR_TABLE_BASE_sms, so that a
\* failure may look like a soft one (exit 1 is MR_CANT_CONNECT); the answer may be lost.
Executed(h) ==
    { << s[1], r >> : s \in Script(h), r \in {"soft", "hard"} }
    \cup { << s[1], "ok" >> : s \in { x \in Script(h) : x[2] } }

=============================================================================
