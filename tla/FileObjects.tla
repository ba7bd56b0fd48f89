---------------------------- MODULE FileObjects -----------------------------
(***************************************************************************)
(* What programs that open, read, write and remove files rely on: a name   *)
(* leads to a file, an open file stays the file that the name led to when  *)
(* it was opened, whatever becomes of the name, and what is written to it  *)
(* is what every name and descriptor of that file reads.  A file without a *)
(* name and without a descriptor is gone.  Handles implements this.        *)
(***************************************************************************)
EXTENDS Integers, Sequences

CONSTANTS Names, Fds, Objects, Modes, Values, MAX_SIZE, NoObject

VARIABLES names,     \* the file of each name
          handles,   \* the file and the mode of each descriptor
          content,   \* what is in each file
          got        \* what the last read returned

vars == <<names, handles, content, got>>

Closed   == [obj |-> NoObject, mode |-> "none"]
Readable(fd) == handles[fd].mode \in {"r", "rw"}
Writable(fd) == handles[fd].mode \in {"w", "rw", "append"}

Used(ns, hs) == {ns[n] : n \in Names} \cup {hs[fd].obj : fd \in Fds}

\* Only files that something leads to have content
Kept(c, ns, hs) == [o \in Objects |-> IF o \in Used(ns, hs) THEN c[o] ELSE <<>>]

Init == /\ names = [n \in Names |-> NoObject]
        /\ handles = [fd \in Fds |-> Closed]
        /\ content = [o \in Objects |-> <<>>]
        /\ got = <<>>

Create(n, o) == /\ names[n] = NoObject
                /\ o \notin Used(names, handles)
                /\ names' = [names EXCEPT ![n] = o]
                /\ UNCHANGED <<handles, content, got>>

Remove(n) == /\ names' = [names EXCEPT ![n] = NoObject]
             /\ content' = Kept(content, names', handles)
             /\ UNCHANGED <<handles, got>>

Open(n, fd, mode) == /\ names[n] # NoObject
                     /\ handles[fd] = Closed
                     /\ handles' = [handles EXCEPT ![fd] = [obj |-> names[n], mode |-> mode]]
                     /\ UNCHANGED <<names, content, got>>

Close(fd) == /\ handles[fd] # Closed
             /\ handles' = [handles EXCEPT ![fd] = Closed]
             /\ content' = Kept(content, names, handles')
             /\ UNCHANGED <<names, got>>

Read(fd) == /\ Readable(fd)
            /\ got' = content[handles[fd].obj]
            /\ UNCHANGED <<names, handles, content>>

\* v over what is at the offset, or behind the end
Put(c, at, v) == IF at < Len(c) THEN [c EXCEPT ![at + 1] = v]
                 ELSE [k \in 1..(at + 1) |-> IF k <= Len(c) THEN c[k]
                                             ELSE IF k = at + 1 THEN v ELSE 0]

Write(fd, at, v) ==
  /\ Writable(fd)
  /\ handles[fd].mode = "append" => at = Len(content[handles[fd].obj])
  /\ content' = [content EXCEPT ![handles[fd].obj] = Put(@, at, v)]
  /\ UNCHANGED <<names, handles, got>>

Resize(n, size) ==
  /\ names[n] # NoObject
  /\ content' = [content EXCEPT ![names[n]] = [k \in 1..size |-> IF k <= Len(@) THEN @[k] ELSE 0]]
  /\ UNCHANGED <<names, handles, got>>

Restart == /\ handles' = [fd \in Fds |-> Closed]
           /\ content' = Kept(content, names, handles')
           /\ UNCHANGED <<names, got>>

Next == \/ \E n \in Names, o \in Objects : Create(n, o)
        \/ \E n \in Names : Remove(n) \/ \E size \in 0..MAX_SIZE : Resize(n, size)
        \/ \E n \in Names, fd \in Fds, mode \in Modes : Open(n, fd, mode)
        \/ \E fd \in Fds : Close(fd) \/ Read(fd)
        \/ \E fd \in Fds, at \in 0..(MAX_SIZE - 1), v \in Values : Write(fd, at, v)
        \/ Restart

Spec == Init /\ [][Next]_vars
=============================================================================
