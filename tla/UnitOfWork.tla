----------------------------- MODULE UnitOfWork -----------------------------
(***************************************************************************)
(* What a SQLAlchemy session does with a row that a request handler has    *)
(* loaded and then assigned to (services/api/app/db/session.py: one        *)
(* session per request, autoflush off, nothing locked, no version column). *)
(*                                                                         *)
(* The UPDATE that db.commit() emits names only the columns whose value    *)
(* differs from the value the session loaded; its WHERE clause is the      *)
(* primary key and nothing else.  So a handler that decided on a stale row *)
(* still writes, over whatever is stored by then, and a handler that       *)
(* assigns the value it had loaded writes nothing at all.                  *)
(***************************************************************************)

\* The stored row after a flush: stored is the row in the database, loaded the
\* row the session read, assigned the row the handler left in the session.
Flushed(stored, loaded, assigned) ==
  [c \in DOMAIN stored |->
     IF assigned[c] = loaded[c] THEN stored[c] ELSE assigned[c]]
=============================================================================
