-------------------------------- MODULE CkTemp --------------------------------
(***************************************************************************)
(* File::temp() and File::temp(path) (declared in file.hh lines 78-79)     *)
(* and the first Open(WRITE) of the File they return.  The repository has  *)
(* no implementation of temp; it is modelled from the spec (4, temp; 10):  *)
(* draw a candidate name, probe it with the static Exist, draw again while *)
(* it exists up to MaxTries probes, and return a File bound to the free    *)
(* candidate, or an unusable File after the last collision.  No file is    *)
(* created.  The caller's Open(WRITE) is file.cc's: open(2) with O_CREAT   *)
(* and without O_EXCL, which creates the name or opens what is there.      *)
(*                                                                         *)
(* Callers are threads (or processes) sharing the temporary directory;     *)
(* each calls temp once and opens the result.  Names is the candidate      *)
(* space, which a random suffix makes large and the model makes small so   *)
(* that collisions happen.                                                 *)
(***************************************************************************)
EXTENDS Naturals, FiniteSets

CONSTANTS
    Callers,    \* threads calling File::temp
    Names,      \* candidate names in the temporary directory
    MaxTries,   \* bound: probes before temp gives up
    NoName      \* the empty path of an unusable File

ASSUME MaxTries \in Nat \ {0} /\ NoName \notin Names

NoOwner == "none"      \* a file the callers did not create

VARIABLES
    pc,         \* caller -> "gen", "check", "open", "done"
    cand,       \* caller -> the candidate drawn last
    tries,      \* caller -> probes made
    name,       \* caller -> the path of the File temp returned
    creator     \* name -> caller whose open(2) created it, NoOwner, or absent

vars == <<pc, cand, tries, name, creator>>

Exists(n) == n \in DOMAIN creator

TypeOK ==
    /\ pc \in [Callers -> {"gen", "check", "open", "done"}]
    /\ cand \in [Callers -> Names \cup {NoName}]
    /\ tries \in [Callers -> 0..MaxTries]
    /\ name \in [Callers -> Names \cup {NoName}]
    /\ DOMAIN creator \subseteq Names
    /\ \A n \in DOMAIN creator : creator[n] \in Callers \cup {NoOwner}

\* The directory may already hold files of other programs.
Init ==
    /\ pc = [c \in Callers |-> "gen"]
    /\ cand = [c \in Callers |-> NoName]
    /\ tries = [c \in Callers |-> 0]
    /\ name = [c \in Callers |-> NoName]
    /\ \E old \in SUBSET Names : creator = [n \in old |-> NoOwner]

\* Draw a candidate name (a random suffix: any name may come up).
Generate(c, n) ==
    /\ pc[c] = "gen"
    /\ cand' = [cand EXCEPT ![c] = n]
    /\ pc' = [pc EXCEPT ![c] = "check"]
    /\ UNCHANGED <<tries, name, creator>>

\* Mutant: the loop bound is off by one and probes MaxTries + 1 names.
CheckOneMore(c) ==
    /\ pc[c] = "check"
    /\ tries' = [tries EXCEPT ![c] = @ + 1]
    /\ CASE ~Exists(cand[c]) ->
              /\ name' = [name EXCEPT ![c] = cand[c]]
              /\ pc' = [pc EXCEPT ![c] = "open"]
         [] tries[c] + 1 <= MaxTries ->
              /\ pc' = [pc EXCEPT ![c] = "gen"]
              /\ UNCHANGED name
         [] OTHER ->
              /\ pc' = [pc EXCEPT ![c] = "done"]
              /\ UNCHANGED name
    /\ UNCHANGED <<cand, creator>>

\* File::Exist(candidate) (file.cc lines 298-302, stat(2)); a free name is
\* returned without being created, a taken one is drawn again while probes
\* remain, and after MaxTries collisions temp returns an unusable File.
Check(c) ==
    /\ pc[c] = "check"
    /\ tries' = [tries EXCEPT ![c] = @ + 1]
    /\ CASE ~Exists(cand[c]) ->
              /\ name' = [name EXCEPT ![c] = cand[c]]
              /\ pc' = [pc EXCEPT ![c] = "open"]
         [] tries[c] + 1 < MaxTries ->
              /\ pc' = [pc EXCEPT ![c] = "gen"]
              /\ UNCHANGED name
         [] OTHER ->
              /\ pc' = [pc EXCEPT ![c] = "done"]
              /\ UNCHANGED name
    /\ UNCHANGED <<cand, creator>>

\* The caller's File::Open(ckOPEN_WRITE), file.cc lines 49-68:
\* open(O_CREAT | O_WRONLY) creates the name if it is free, else opens it.
OpenWrite(c) ==
    /\ pc[c] = "open"
    /\ creator' = IF Exists(name[c]) THEN creator
                  ELSE [n \in DOMAIN creator \cup {name[c]} |->
                          IF n = name[c] THEN c ELSE creator[n]]
    /\ pc' = [pc EXCEPT ![c] = "done"]
    /\ UNCHANGED <<cand, tries, name>>

Step(c) == (\E n \in Names : Generate(c, n)) \/ Check(c) \/ OpenWrite(c)

Next == \E c \in Callers : Step(c)

Spec == Init /\ [][Next]_vars

-----------------------------------------------------------------------------

(***************************************************************************)
(* A temporary file is the caller's own (spec 4, temp: "collisions must be *)
(* avoided"): a caller that got a name from temp and opened it for writing *)
(* is writing to the file its own open(2) created, not to one another      *)
(* caller or program put at that name.                                     *)
(***************************************************************************)
TempFileExclusive ==
    \A c \in Callers :
        pc[c] = "done" /\ name[c] # NoName => creator[name[c]] = c

=============================================================================
