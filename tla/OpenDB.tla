------------------------------- MODULE OpenDB -------------------------------
(***************************************************************************)
(* storage.openDB (src/unnamed/part_001, lines 79-135), as New calls it:   *)
(* concurrent callers open SQLite handles through a process-wide index     *)
(* from file name to handle.  The lookup and the insert each hold the      *)
(* index lock; sql.Open runs between them without it.                      *)
(*                                                                         *)
(* A DSN is abstracted to what openDB reads of it: the file name and the   *)
(* mode and cache parameters.  A handle is a number; opened[h] is the DSN  *)
(* it was opened with (the two parameters openDB adds are the same for     *)
(* every handle and are left out).                                          *)
(***************************************************************************)
EXTENDS Naturals, Sequences

CONSTANTS
    Callers,    \* goroutines calling New
    DSNs,       \* the DSNs they pass: [file, mode, cache]
    Failures    \* whether NewDSN and sql.Open may return an error

NoHandle == 0

VARIABLES
    pc,      \* where each caller is in openDB
    dsn,     \* the DSN each caller passed
    handle,  \* the handle each caller holds (NoHandle when none)
    index,   \* index.db: file name -> handle (NoHandle when absent)
    opened   \* opened[h]: the DSN handle h was opened with, h \in 1..Len

vars == <<pc, dsn, handle, index, opened>>

PCs == {"idle", "lookup", "open", "insert", "done", "err"}
Files == {d.file : d \in DSNs}

\* Line 112: a private in-memory database gets a handle of its own.
Private(d) == (d.file = ":memory:" \/ d.mode = "memory") /\ d.cache # "shared"

Init ==
    /\ pc = [g \in Callers |-> "idle"]
    /\ dsn = [g \in Callers |-> CHOOSE d \in DSNs : TRUE]
    /\ handle = [g \in Callers |-> NoHandle]
    /\ index = [f \in Files |-> NoHandle]
    /\ opened = <<>>

\* sql.Open(fdsn): a new handle, numbered in order of opening.
NewHandle(d) == Append(opened, d)

\* sql.Open fails: openDB returns the error.
OpenError(g) ==
    /\ Failures
    /\ pc' = [pc EXCEPT ![g] = "err"]
    /\ UNCHANGED <<opened, handle>>

\* New(dsn) calls openDB; NewDSN parses it or fails (lines 96-110).  A
\* private in-memory DSN is opened at once (lines 112-116).
Start(g, d) ==
    /\ pc[g] = "idle"
    /\ dsn' = [dsn EXCEPT ![g] = d]
    /\ \/ OpenError(g)
       \/ /\ Private(d)
          /\ opened' = NewHandle(d)
          /\ handle' = [handle EXCEPT ![g] = Len(opened) + 1]
          /\ pc' = [pc EXCEPT ![g] = "done"]
       \/ /\ ~Private(d)
          /\ pc' = [pc EXCEPT ![g] = "lookup"]
          /\ UNCHANGED <<opened, handle>>
    /\ UNCHANGED index

\* Lines 118-120: look the file up under the lock; a hit is returned.
Lookup(g) ==
    /\ pc[g] = "lookup"
    /\ LET h == index[dsn[g].file] IN
       IF h # NoHandle
         THEN handle' = [handle EXCEPT ![g] = h] /\ pc' = [pc EXCEPT ![g] = "done"]
         ELSE pc' = [pc EXCEPT ![g] = "open"] /\ UNCHANGED handle
    /\ UNCHANGED <<dsn, index, opened>>

\* Lines 122-127: sql.Open without the lock.
Open(g) ==
    /\ pc[g] = "open"
    /\ \/ /\ opened' = NewHandle(dsn[g])
          /\ handle' = [handle EXCEPT ![g] = Len(opened) + 1]
          /\ pc' = [pc EXCEPT ![g] = "insert"]
       \/ OpenError(g)
    /\ UNCHANGED <<dsn, index>>

\* Lines 129-131: insert under the lock, over whatever is there.
Insert(g) ==
    /\ pc[g] = "insert"
    /\ index' = [index EXCEPT ![dsn[g].file] = handle[g]]
    /\ pc' = [pc EXCEPT ![g] = "done"]
    /\ UNCHANGED <<dsn, handle, opened>>

Next ==
    \E g \in Callers :
        \/ \E d \in DSNs : Start(g, d)
        \/ Lookup(g) \/ Open(g) \/ Insert(g)

Spec == Init /\ [][Next]_vars

-----------------------------------------------------------------------------
\* Two DSNs name the same database: the same file, both in memory or both
\* on disk.
SameDatabase(d, e) ==
    /\ d.file = e.file
    /\ (d.file = ":memory:" \/ d.mode = "memory")
           = (e.file = ":memory:" \/ e.mode = "memory")

(***************************************************************************)
(* Spec 4.2: Storage instances over the same file share a single handle.   *)
(* Two New calls that returned handles for the same shared database       *)
(* returned the same handle, however their lookups, opens and inserts     *)
(* interleave.                                                              *)
(***************************************************************************)
SharedHandle ==
    \A g, k \in Callers :
        /\ pc[g] = "done" /\ pc[k] = "done"
        /\ ~Private(dsn[g]) /\ ~Private(dsn[k])
        /\ SameDatabase(dsn[g], dsn[k])
        => handle[g] = handle[k]

=============================================================================
