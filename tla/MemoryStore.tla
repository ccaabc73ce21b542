---------------------------- MODULE MemoryStore ----------------------------
(***************************************************************************)
(* The memory of the server: JSON lines in a global file, which every new  *)
(* MemoryStore() seeds with the core rules when it is not there, and in a  *)
(* file of the project, to which an ingestion adds the items of a run.     *)
(*                                                                         *)
(* Ingestions and seedings are made by runs on the event loop and by the   *)
(* endpoints of api/memory.py in threads; an append is one write to a file *)
(* that is open for appending, so lines are whole unless the write is cut  *)
(* short.  The vector index and the manifest of the memory, rebuilt after  *)
(* each append and read by nothing that retrieves items, are left out.     *)
(***************************************************************************)
EXTENDS Naturals, Sequences, FiniteSets

CONSTANTS
    Actor,       \* runs and threads that may hold a MemoryStore
    Run,         \* the runs whose items are ingested
    NoRun,       \* of a rule
    Rules,       \* how many rules core_memory.json has
    Kinds        \* how many items an ingestion adds

VARIABLES
    memory,      \* File -> its lines
    work,        \* Actor -> the lines it still has to append
    inserted,    \* Actor -> the items its ingestion has added
    cuts,        \* TRUE once an append was cut short
    interrupted  \* TRUE once an actor stopped with a rule still to append

memoryVars == <<memory, work, inserted, cuts, interrupted>>

File == {"global", "project"}
Item == [n : 1..(Rules + Kinds), run : Run \cup {NoRun}, by : Actor]

\* What add_item writes where.
Line == [file : File, item : Item]

\* A file, the items that can be read back from it, whether its last line
\* has no end, and the items that were glued to such a line.
MemoryFile ==
    [made : BOOLEAN, lines : SUBSET Item, tail : BOOLEAN, swallowed : SUBSET Item]

MemoryInit ==
    /\ memory = [f \in File |-> [made |-> FALSE, lines |-> {}, tail |-> FALSE, swallowed |-> {}]]
    /\ work = [a \in Actor |-> <<>>]
    /\ inserted = [a \in Actor |-> {}]
    /\ cuts = FALSE /\ interrupted = FALSE

MemoryTypeOK ==
    /\ memory \in [File -> MemoryFile]
    /\ work \in [Actor -> Seq(Line)]
    /\ inserted \in [Actor -> SUBSET Item]
    /\ cuts \in BOOLEAN /\ interrupted \in BOOLEAN

\* The lines of a run's ingestion; an id is new with each ingestion.
Ingestion(run, a) ==
    [k \in 1..Kinds |-> [file |-> "project", item |-> [n |-> Rules + k, run |-> run, by |-> a]]]

\* _ensure_core_seed: the file's existence decides, before the first rule is
\* added and never again.
Seeds(a) ==
    IF memory["global"].made THEN <<>>
    ELSE [i \in 1..Rules |-> [file |-> "global", item |-> [n |-> i, run |-> NoRun, by |-> a]]]

\* MemoryStore(), then what its owner has to add.
Open(a, lines) ==
    /\ work' = [work EXCEPT ![a] = Seeds(a) \o lines]
    /\ inserted' = [inserted EXCEPT ![a] = {}]
    /\ UNCHANGED <<cuts, interrupted>>

\* Mutant: the file is opened for writing.
WithOnlyLine(file, item) ==
    [file EXCEPT !.made = TRUE, !.lines = {item}, !.tail = FALSE]

\* _append: the item is a line of its own when the last line has its end.
WithLine(file, item) ==
    [file EXCEPT !.made = TRUE, !.tail = FALSE,
        !.lines = IF file.tail THEN @ ELSE @ \cup {item},
        !.swallowed = IF file.tail THEN @ \cup {item} ELSE @]

\* The file was opened for appending, which makes it.
Made(file) == [file EXCEPT !.made = TRUE]

\* A write that was cut short, by a full disk or with the process.
WithTail(file) == [file EXCEPT !.made = TRUE, !.tail = TRUE]

\* A rule is among the lines.
HasRules(lines) == \E i \in DOMAIN lines : lines[i].file = "global"

\* Mutant: seeding stops as soon as the file is there.
LeftUnlessSeeded(a) == SelectSeq(Tail(work[a]), LAMBDA w : w.file # "global")

\* What an actor has left to append after this line.
Left(a) == Tail(work[a])

\* add_item.
AddItem(a) ==
    /\ work[a] # <<>>
    /\ memory' = [memory EXCEPT ![Head(work[a]).file] = WithLine(@, Head(work[a]).item)]
    /\ work' = [work EXCEPT ![a] = Left(a)]
    /\ inserted' = [inserted EXCEPT ![a] =
           IF Head(work[a]).file = "project" THEN @ \cup {Head(work[a]).item} ELSE @]
    /\ UNCHANGED <<cuts, interrupted>>

\* add_item raises and its owner stops: in _append, with nothing or a part of
\* the line written, or in rebuild_index, after the whole line.
AddItemRaises(a) ==
    /\ work[a] # <<>>
    /\ LET f == Head(work[a]).file IN
          \/ /\ \E file \in {memory[f], Made(memory[f]), WithTail(memory[f])} :
                   memory' = [memory EXCEPT ![f] = file]
             /\ interrupted' = (interrupted \/ HasRules(work[a]))
          \/ /\ memory' = [memory EXCEPT ![f] = WithLine(@, Head(work[a]).item)]
             /\ interrupted' = (interrupted \/ HasRules(Left(a)))
    /\ cuts' = (cuts \/ \E f \in File : memory'[f].tail)
    /\ work' = [work EXCEPT ![a] = <<>>]
    /\ UNCHANGED inserted

\* The process dies, maybe while some of its actors are in an append, maybe
\* between two.
MemoryCrash ==
    /\ \E opened \in SUBSET {Head(work[a]).file : a \in {b \in Actor : work[b] # <<>>}} :
       \E cut \in SUBSET opened :
          memory' = [f \in File |-> IF f \in cut THEN WithTail(memory[f])
                                   ELSE IF f \in opened THEN Made(memory[f])
                                   ELSE memory[f]]
    /\ cuts' = (cuts \/ \E f \in File : memory'[f].tail)
    /\ interrupted' = (interrupted \/ \E a \in Actor : HasRules(work[a]))
    /\ work' = [a \in Actor |-> <<>>]
    /\ UNCHANGED inserted
=============================================================================
