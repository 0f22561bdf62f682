-------------------------- MODULE DrainPredicates --------------------------
(***************************************************************************)
(* The drain-convergence predicates (src/internal/ups/drain.go).  A name   *)
(* is a sequence of pieces, of which "." is one; a line of docker node ps  *)
(* is the name of a task and whether its state begins with "Running".      *)
(***************************************************************************)
EXTENDS Naturals, SequencesExt

(* Swarm's name of a replica: <service>.<slot>.<task id>. *)
TaskName(service) == service \o <<".", "1", ".", "id">>

Owns(service, name) == IsPrefix(service \o <<".">>, name)

(* longestServicePrefix: the longest service of want that owns name, if any. *)
LongestServicePrefix(name, want) ==
    LET owners == {s \in want : Owns(s, name)}
    IN  {s \in owners : \A t \in owners : Len(t) <= Len(s)}

(* Plausible bug in Satisfied: tasks that are still being prepared count. *)
SatisfiedByAny(services, rows) == UNION {LongestServicePrefix(r.name, services) : r \in rows}

Satisfied(services, rows) ==
    UNION {LongestServicePrefix(r.name, services) : r \in {x \in rows : x.running}}

MissingServices(services, rows) == services \ Satisfied(services, rows)
=============================================================================
