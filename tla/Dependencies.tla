---------------------------- MODULE Dependencies ----------------------------
(***************************************************************************)
(* The dependencies of projects (projects.service.ts): addDependency looks *)
(* for a path from the prerequisite back to the project, level by level,   *)
(* one query each, and then inserts; removals and deletions of projects go *)
(* on meanwhile.  A removed project is only marked, so its dependencies    *)
(* stay and count.                                                         *)
(***************************************************************************)
EXTENDS Requests

CONSTANTS Endeavour,        \* ids of projects
          Planner           \* requests that add a dependency

VARIABLES
    listed,         \* projects that are not deleted
    depends,        \* project_dependencies: pairs <<project, prerequisite>>
    search          \* requests in progress

dependencyVars == <<listed, depends, search>>

Hunt == [op : {"search", "insert"}, of : Endeavour, on : Endeavour,
         visited : SUBSET Endeavour, frontier : SUBSET Endeavour]

DependenciesTypeOK ==
    /\ listed \subseteq Endeavour
    /\ depends \subseteq Endeavour \X Endeavour
    /\ search \in [Planner -> Hunt \cup {Idle}]

DependenciesInit ==
    /\ listed = Endeavour /\ depends = {}
    /\ search = [h \in Planner |-> Idle]

Searches(h, q) == search' = [search EXCEPT ![h] = q]

\* Mutant: only a direct dependency is looked for.
AddDependencyShort(h, j, k) ==
    /\ search[h] = Idle /\ j \in listed /\ k \in listed /\ j # k /\ <<k, j>> \notin depends
    /\ Searches(h, [op |-> "insert", of |-> j, on |-> k, visited |-> {k}, frontier |-> {}])
    /\ UNCHANGED <<listed, depends>>

\* addDependency up to its search: both projects are there, and they differ.
AddDependency(h, j, k) ==
    /\ search[h] = Idle /\ j \in listed /\ k \in listed /\ j # k
    /\ Searches(h, [op |-> "search", of |-> j, on |-> k, visited |-> {}, frontier |-> {k}])
    /\ UNCHANGED <<listed, depends>>

Prerequisites(some) == {k \in Endeavour : \E j \in some : <<j, k>> \in depends}

\* One round of hasDependencyPath, a query, and whether another one follows.
SearchLevel(h) ==
    /\ search[h].op = "search"
    /\ LET q == search[h]
           next == Prerequisites(q.frontier)
           visited == q.visited \cup q.frontier IN
       Searches(h, IF q.of \in next THEN Idle
                   ELSE [q EXCEPT !.op = IF next \subseteq visited THEN "insert" ELSE @,
                                  !.visited = visited, !.frontier = next \ visited])
    /\ UNCHANGED <<listed, depends>>

\* The insert; the unique key refuses a second one.
InsertDependency(h) ==
    /\ search[h].op = "insert"
    /\ depends' = depends \cup {<<search[h].of, search[h].on>>}
    /\ Searches(h, Idle)
    /\ UNCHANGED listed

\* removeDependency.
RemoveDependency(j, k) ==
    /\ j \in listed /\ <<j, k>> \in depends
    /\ depends' = depends \ {<<j, k>>}
    /\ UNCHANGED <<listed, search>>

\* remove, of a project.
Unlist(j) ==
    /\ j \in listed /\ listed' = listed \ {j}
    /\ UNCHANGED <<depends, search>>

DependenciesNext ==
    \/ \E h \in Planner : SearchLevel(h) \/ InsertDependency(h)
    \/ \E h \in Planner, j, k \in Endeavour : AddDependency(h, j, k)
    \/ \E j, k \in Endeavour : RemoveDependency(j, k)
    \/ \E j \in Endeavour : Unlist(j)

DependenciesSpec == DependenciesInit /\ [][DependenciesNext]_dependencyVars

(***************************************************************************)
(* Properties.                                                             *)
(***************************************************************************)

\* While one request at a time adds dependencies, whatever is removed meanwhile: no
\* project waits for itself.  In every set of projects one waits for none of the others.
Acyclic ==
    \A some \in (SUBSET Endeavour) \ {{}} :
       \E j \in some : \A k \in some : <<j, k>> \notin depends
==============================================================================
