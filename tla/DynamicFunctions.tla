-------------------------- MODULE DynamicFunctions --------------------------
(***************************************************************************)
(* The functions an agent writes for itself (sandbox/tools/dynamic.py):    *)
(* make, edit and call, and the operator's promotion and archiving.        *)
(*                                                                         *)
(* A root, lib/ or sandbox/, is a directory of modules and an index.yaml.  *)
(* Every operation reads a whole index, changes it, and writes it back, in *)
(* steps of their own and without a lock; the writers are the tool threads *)
(* of one process, other processes of the same org, and the command line.  *)
(* Writing an index is to empty the file and to fill it, and a process may *)
(* die between any two steps.  Modules are short and written in one step.  *)
(***************************************************************************)
EXTENDS Naturals, FiniteSets

CONSTANTS
    Names,      \* names of functions
    Actors,     \* threads and processes at work
    MaxTasks,   \* bound: operations begun
    MaxDeaths,  \* bound: deaths of a process in the middle of one
    Absent      \* no module

ASSUME DynamicBounds == MaxTasks \in Nat /\ MaxDeaths \in Nat /\ Absent \notin Nat \ {0}

VARIABLES
    index,      \* per root: the names its index lists
    saves,      \* per root: times its index was written, to tell stale copies
    module,     \* per root and name: the operation whose source the module has
    archived,   \* sources moved to .archive
    task,       \* per actor: the operation at work
    begun,      \* operations begun, which also name the sources
    deaths,     \* deaths so far
    promoted,   \* per name: the source its promotion published, Absent before
    remade,     \* names the agent made again since they left lib's index for sandbox
    clobbered   \* roots where a stale index was saved or an operation broke off

dynVars == <<index, saves, module, archived, task, begun, deaths, promoted, remade, clobbered>>

Roots == {"lib", "sandbox"}
Ops == {"make", "edit", "call", "promote", "archive"}

\* A copy of an index: the names, and the number of saves it was read after.
NoCopy == [names |-> {}, at |-> 0]
Rest == [op |-> "none", name |-> Absent, step |-> "rest", id |-> 0, root |-> "lib",
         lib |-> NoCopy, sandbox |-> NoCopy, published |-> Absent, ran |-> Absent]

DynInit ==
    /\ index = [r \in Roots |-> {}] /\ saves = [r \in Roots |-> 0]
    /\ module = [r \in Roots |-> [n \in Names |-> Absent]]
    /\ archived = {} /\ task = [a \in Actors |-> Rest]
    /\ begun = 0 /\ deaths = 0
    /\ promoted = [n \in Names |-> Absent] /\ remade = {} /\ clobbered = {}

At(a, ops, step) == task[a].op \in ops /\ task[a].step = step
Done(a) == task' = [task EXCEPT ![a] = Rest]
Goes(a, step) == task' = [task EXCEPT ![a].step = step]
\* The operation ends in the middle of what it does to its roots.
BreaksOff(a) ==
    /\ Done(a)
    /\ clobbered' = clobbered \cup (IF task[a].op = "promote" THEN Roots ELSE {task[a].root})

-----------------------------------------------------------------------------
(***************************************************************************)
(* Reading.                                                                *)
(***************************************************************************)

\* load_dynamic_index: a file that is being written reads as an empty index; an
\* odd number of saves marks it.
Writing(r) == saves[r] % 2 = 1
Copy(r) == [names |-> index[r], at |-> saves[r]]

\* Every operation starts with lib's index.
Begin(a, op, n) ==
    /\ task[a] = Rest /\ begun < MaxTasks /\ begun' = begun + 1
    /\ task' = [task EXCEPT ![a] = [Rest EXCEPT !.op = op, !.name = n, !.id = begun + 1, !.lib = Copy("lib"),
                                    !.step = "looked", !.published = promoted[n]]]
    /\ UNCHANGED <<index, saves, module, archived, deaths, promoted, remade, clobbered>>

Listed(a, r) == task[a].name \in task[a][r].names

\* make of a name lib knows, edit and archive of one it does not, a promotion
\* of one it does not.
Refuse(a) ==
    /\ task[a].step = "looked"
    /\ IF task[a].op = "make" THEN Listed(a, "lib") ELSE task[a].op # "call" /\ ~Listed(a, "lib")
    /\ Done(a)
    /\ UNCHANGED <<index, saves, module, archived, begun, deaths, promoted, remade, clobbered>>

-----------------------------------------------------------------------------
(***************************************************************************)
(* make_function and edit_function.                                        *)
(***************************************************************************)

\* Mutant: an edit of a promoted function finds it where call_function would.
WriteWhereFound(a) ==
    /\ At(a, {"make", "edit"}, "looked") /\ (task[a].op = "edit" => task[a].name \in index["lib"] \cup index["sandbox"])
    /\ LET r == IF task[a].op = "edit" /\ task[a].name \notin index["lib"] THEN "sandbox" ELSE "lib" IN
       /\ module' = [module EXCEPT ![r][task[a].name] = task[a].id]
       /\ task' = [task EXCEPT ![a].root = r, ![a][r] = Copy(r), ![a].step = "save"]
    /\ UNCHANGED <<index, saves, archived, begun, deaths, promoted, remade, clobbered>>

\* The new source is written to lib; make asks lib alone whether the name is taken.
Write(a) ==
    /\ At(a, {"make", "edit"}, "looked") /\ (task[a].op = "edit") = Listed(a, "lib")
    /\ module' = [module EXCEPT !["lib"][task[a].name] = task[a].id]
    /\ remade' = IF task[a].op = "make" THEN remade \cup {task[a].name} ELSE remade
    /\ Goes(a, "save")
    /\ UNCHANGED <<index, saves, archived, begun, deaths, promoted, clobbered>>

-----------------------------------------------------------------------------
(***************************************************************************)
(* save_dynamic_index                                                      *)
(***************************************************************************)

\* What the operation makes of its copy of the index it saves next.
Changed(a) ==
    LET r == task[a].root  n == {task[a].name} IN
    CASE task[a].op = "call" -> task[a][r].names
      [] task[a].op \in {"make", "edit"} \/ (task[a].op = "promote" /\ r = "sandbox") -> task[a][r].names \cup n
      [] OTHER -> task[a][r].names \ n

\* write_text opens the file, which empties it.  A copy that is not the newest
\* would undo what was saved after it.
Empty(a) ==
    /\ task[a].step = "save"
    /\ LET r == task[a].root IN
       /\ index' = [index EXCEPT ![r] = {}]
       /\ saves' = [saves EXCEPT ![r] = IF Writing(r) THEN @ ELSE @ + 1]
       /\ clobbered' = IF task[a][r].at # saves[r] \/ Writing(r) THEN clobbered \cup {r} ELSE clobbered
    /\ Goes(a, "fill")
    /\ UNCHANGED <<module, archived, begun, deaths, promoted, remade>>

\* The text is in the file.  A promotion goes on with the other index.
Fill(a) ==
    /\ task[a].step = "fill"
    /\ LET r == task[a].root  n == task[a].name  promotes == task[a].op = "promote" IN
       /\ index' = [index EXCEPT ![r] = Changed(a)]
       /\ saves' = [saves EXCEPT ![r] = IF Writing(r) THEN @ + 1 ELSE @]
       /\ promoted' = IF promotes /\ r = "sandbox" THEN [promoted EXCEPT ![n] = module["sandbox"][n]]
                                                   ELSE promoted
       /\ remade' = IF promotes /\ r = "lib" THEN remade \ {n} ELSE remade
       /\ IF promotes /\ r = "lib"
          THEN task' = [task EXCEPT ![a].root = "sandbox", ![a].step = "save"]
          ELSE Done(a)
    /\ UNCHANGED <<module, archived, begun, deaths, clobbered>>

-----------------------------------------------------------------------------
(***************************************************************************)
(* call_function                                                           *)
(***************************************************************************)

\* _resolve_root: lib wins over sandbox.
ResolveRoot(a) ==
    /\ At(a, {"call"}, "looked")
    /\ IF Listed(a, "lib") THEN task' = [task EXCEPT ![a].root = "lib", ![a].step = "exec"]
       ELSE IF task[a].name \in index["sandbox"]
       THEN task' = [task EXCEPT ![a].root = "sandbox", ![a].step = "exec"]
       ELSE Done(a)
    /\ UNCHANGED <<index, saves, module, archived, begun, deaths, promoted, remade, clobbered>>

\* The runner imports the module that is there when it runs; an import of a
\* missing one is an error of the function, and counted like any other.
Exec(a) ==
    /\ At(a, {"call"}, "exec")
    /\ task' = [task EXCEPT ![a].ran = module[task[a].root][task[a].name], ![a].step = "ran"]
    /\ UNCHANGED <<index, saves, module, archived, begun, deaths, promoted, remade, clobbered>>

\* _bump_call reads the index again; an entry that is gone is not counted.
Bump(a) ==
    /\ At(a, {"call"}, "ran")
    /\ LET r == task[a].root IN
       IF task[a].name \in index[r]
       THEN task' = [task EXCEPT ![a][r] = Copy(r), ![a].step = "save"]
       ELSE Done(a)
    /\ UNCHANGED <<index, saves, module, archived, begun, deaths, promoted, remade, clobbered>>

-----------------------------------------------------------------------------
(***************************************************************************)
(* promote_function and archive_function                                   *)
(***************************************************************************)

\* The second index is read; nothing is done for a name sandbox has, or for one
\* whose module is missing.
PromoteLook(a) ==
    /\ At(a, {"promote"}, "looked") /\ Listed(a, "lib")
    /\ IF task[a].name \in index["sandbox"] \/ module["lib"][task[a].name] = Absent THEN Done(a)
       ELSE task' = [task EXCEPT ![a].sandbox = Copy("sandbox"), ![a].step = "copy"]
    /\ UNCHANGED <<index, saves, module, archived, begun, deaths, promoted, remade, clobbered>>

\* The copy, before the original goes; a source that has gone meanwhile raises.
PromoteCopy(a) ==
    /\ At(a, {"promote"}, "copy")
    /\ LET n == task[a].name IN
       IF module["lib"][n] = Absent THEN Done(a) /\ UNCHANGED module
       ELSE /\ module' = [module EXCEPT !["sandbox"][n] = module["lib"][n]]
            /\ Goes(a, "unlink")
    /\ UNCHANGED <<index, saves, archived, begun, deaths, promoted, remade, clobbered>>

ArchiveCopy(a) ==
    /\ At(a, {"archive"}, "looked") /\ Listed(a, "lib")
    /\ LET s == module["lib"][task[a].name] IN
       IF s = Absent THEN Goes(a, "save") /\ UNCHANGED archived
                     ELSE Goes(a, "unlink") /\ archived' = archived \cup {s}
    /\ UNCHANGED <<index, saves, module, begun, deaths, promoted, remade, clobbered>>

\* Mutant: the module stays where it was.
UnlinkNothing(a) ==
    /\ task[a].step = "unlink"
    /\ Goes(a, "save")
    /\ UNCHANGED <<index, saves, module, archived, begun, deaths, promoted, remade, clobbered>>

\* unlink raises for a module that has gone meanwhile.
Unlink(a) ==
    /\ task[a].step = "unlink"
    /\ IF module["lib"][task[a].name] = Absent THEN BreaksOff(a) /\ UNCHANGED module
       ELSE /\ Goes(a, "save") /\ UNCHANGED clobbered
            /\ module' = [module EXCEPT !["lib"][task[a].name] = Absent]
    /\ UNCHANGED <<index, saves, archived, begun, deaths, promoted, remade>>

-----------------------------------------------------------------------------
\* The process dies between two steps of an operation that changes something.
\* What it was about to do to its roots is lost; an index it had opened stays empty.
Die(a) ==
    /\ task[a].step \notin {"rest", "looked", "exec", "ran"} /\ deaths < MaxDeaths
    /\ deaths' = deaths + 1
    /\ BreaksOff(a)
    /\ saves' = [r \in Roots |-> IF task[a].step = "fill" /\ task[a].root = r /\ Writing(r) THEN saves[r] + 1 ELSE saves[r]]
    /\ UNCHANGED <<index, module, archived, begun, promoted, remade>>

DynNext ==
    \/ \E a \in Actors : \E op \in Ops, n \in Names : Begin(a, op, n)
    \/ \E a \in Actors :
        \/ Refuse(a) \/ Write(a) \/ Empty(a) \/ Fill(a)
        \/ ResolveRoot(a) \/ Exec(a) \/ Bump(a)
        \/ PromoteLook(a) \/ PromoteCopy(a) \/ ArchiveCopy(a) \/ Unlink(a)
        \/ Die(a)

DynSpec == DynInit /\ [][DynNext]_dynVars

-----------------------------------------------------------------------------
(***************************************************************************)
(* Properties.                                                             *)
(***************************************************************************)

\* The only way an index and its modules come to disagree is that it was saved
\* from a copy that was no longer the newest, or that an operation broke off: in a
\* root that was spared both, whatever else overlapped, a name is listed exactly when
\* its module is there, once nobody is at work (dynamic.py:191-196, 315-377).
FunctionLostOnlyByOverlap ==
    (\A a \in Actors : task[a] = Rest) =>
        \A r \in Roots \ clobbered : index[r] = {n \in Names : module[r][n] # Absent}

\* A promotion has copied the source of n, and has not published it.
BeingPromoted(n) ==
    \E a \in Actors :
        task[a].op = "promote" /\ task[a].name = n /\ task[a].step \in {"unlink", "save", "fill"}

\* What a call of a promoted function runs is what the operator promoted, or
\* nothing: the agent can call these but cannot edit them (dynamic.py:216-233,
\* 499-510).  Except that it may make a function of the same name, which
\* _make_make does not refuse and _resolve_root prefers, that a stale save
\* may bring the old entry back, and that a second promotion, which read the
\* index while it was being written, copies over the published source.
PromotedIsWhatRuns ==
    \A a \in Actors :
        task[a].step = "ran" /\ task[a].published # Absent /\ clobbered = {}
            /\ task[a].name \notin remade /\ ~BeingPromoted(task[a].name)
                => task[a].ran = task[a].published
=============================================================================
