----------------------------- MODULE FileConfig -----------------------------
(***************************************************************************)
(* The configuration file: programs read it when they start and Scan the   *)
(* keys they need.  A key that is missing is added with the caller's value *)
(* and the whole file is written from memory; the Scan fails all the same, *)
(* so the program ends, and finds the key when it is started again.        *)
(***************************************************************************)
EXTENDS Naturals, Sequences

CONSTANTS
    Programs,   \* programs, or instances of one, that use the file
    Needs,      \* the keys each program scans, in their order
    Keys,
    MaxEdits,   \* bound: edits by the operator
    MaxCrashes  \* bound: programs that die

ConfigAssumption ==
    Needs \in [Programs -> Seq(Keys)] /\ MaxEdits \in Nat /\ MaxCrashes \in Nat

Missing == 0   \* no value
Default == 1   \* what a caller has in its struct when it scans

VARIABLES
    file,     \* the value of each key in the file
    broken,   \* the file cannot be parsed
    memory,   \* fileSource.config of each program
    pc,       \* where each program is
    scanned,  \* how many keys it has scanned
    current,  \* history: the file is as the program read it
    intent,   \* history: what the operator has written for each key
    lost,     \* history: a program wrote over a file it had not read, or died writing
    torn,     \* history: a program read the file while another one wrote it
    edits, crashes  \* bound counters

program == <<memory, pc, scanned>>
vars    == <<file, broken, program, current, intent, lost, torn, edits, crashes>>

NoKeys == [k \in Keys |-> Missing]
-----------------------------------------------------------------------------
Init ==
    /\ intent \in [Keys -> {Missing, 2}]
    /\ file = intent /\ broken = FALSE
    /\ memory = [p \in Programs |-> NoKeys]
    /\ pc = [p \in Programs |-> "stopped"]
    /\ scanned = [p \in Programs |-> 0]
    /\ current = [p \in Programs |-> FALSE]
    /\ lost = FALSE /\ torn = FALSE /\ edits = 0 /\ crashes = 0

\* The operator sets a key; a broken file is written anew.
Edit(k) ==
    /\ edits < MaxEdits /\ edits' = edits + 1
    /\ intent' = [intent EXCEPT ![k] = edits + 3]
    /\ file' = [IF broken THEN intent ELSE file EXCEPT ![k] = edits + 3]
    /\ broken' = FALSE
    /\ current' = [p \in Programs |-> FALSE]
    /\ lost' = (lost \/ \E p \in Programs : pc[p] = "writing")
    /\ UNCHANGED <<program, torn, crashes>>

\* NewSource reads the file.
NewSource(p) ==
    /\ pc[p] = "stopped" /\ ~broken
    /\ memory' = [memory EXCEPT ![p] = file]
    /\ scanned' = [scanned EXCEPT ![p] = 0]
    /\ pc' = [pc EXCEPT ![p] = "scan"]
    /\ current' = [current EXCEPT ![p] = \A q \in Programs : pc[q] # "writing"]
    /\ torn' = (torn \/ \E q \in Programs : pc[q] = "writing")
    /\ UNCHANGED <<file, broken, intent, lost, edits, crashes>>

NextKey(p) == Needs[p][scanned[p] + 1]

\* Scan of a key that is in the program's memory.
Scan(p) ==
    /\ pc[p] = "scan" /\ scanned[p] < Len(Needs[p])
    /\ memory[p][NextKey(p)] # Missing
    /\ scanned' = [scanned EXCEPT ![p] = @ + 1]
    /\ UNCHANGED <<file, broken, memory, pc, current, intent, lost, torn, edits, crashes>>

\* All that NewConfig and the components need is there.
Started(p) ==
    /\ pc[p] = "scan" /\ scanned[p] = Len(Needs[p])
    /\ pc' = [pc EXCEPT ![p] = "running"]
    /\ UNCHANGED <<file, broken, memory, scanned, current, intent, lost, torn, edits, crashes>>

\* Mutant: only the missing key is written.
WrittenKey(p) == [NoKeys EXCEPT ![NextKey(p)] = Default]

\* What is written: all that the program has in memory.
Written(p) == [memory[p] EXCEPT ![NextKey(p)] = Default]

\* Scan of a missing key.  os.WriteFile truncates the file: until all is written it holds
\* some of the keys, or is cut where it cannot be parsed.
ScanMissing(p) ==
    /\ pc[p] = "scan" /\ scanned[p] < Len(Needs[p])
    /\ memory[p][NextKey(p)] = Missing
    /\ memory' = [memory EXCEPT ![p][NextKey(p)] = Default]
    /\ pc' = [pc EXCEPT ![p] = "writing"]
    /\ lost' = (lost \/ ~current[p])
    /\ current' = [q \in Programs |-> q = p /\ current[p]]
    /\ \E K \in SUBSET Keys, b \in BOOLEAN :
          /\ file' = [k \in Keys |-> IF k \in K THEN Written(p)[k] ELSE Missing]
          /\ broken' = b
    /\ UNCHANGED <<scanned, intent, torn, edits, crashes>>

\* The file is written; Scan returns ErrNotFound, and the program ends.
NotFound(p) ==
    /\ pc[p] = "writing"
    /\ file' = Written(p) /\ broken' = FALSE
    /\ current' = [q \in Programs |-> FALSE]
    /\ pc' = [pc EXCEPT ![p] = "stopped"]
    /\ UNCHANGED <<memory, scanned, intent, lost, torn, edits, crashes>>

Crash(p) ==
    /\ pc[p] # "stopped"
    /\ crashes < MaxCrashes /\ crashes' = crashes + 1
    /\ pc' = [pc EXCEPT ![p] = "stopped"]
    /\ lost' = (lost \/ pc[p] = "writing")
    /\ UNCHANGED <<file, broken, memory, scanned, current, intent, torn, edits>>

ProgramStep(p) == NewSource(p) \/ Scan(p) \/ Started(p) \/ ScanMissing(p) \/ NotFound(p)

Next ==
    \/ \E k \in Keys : Edit(k)
    \/ \E p \in Programs : ProgramStep(p) \/ Crash(p)

Spec == Init /\ [][Next]_vars
-----------------------------------------------------------------------------
Values == 0..(MaxEdits + 2)

\* Every variable holds a value of its type.
ConfigTypeOK ==
    /\ file \in [Keys -> Values] /\ broken \in BOOLEAN
    /\ memory \in [Programs -> [Keys -> Values]]
    /\ pc \in [Programs -> {"stopped", "scan", "writing", "running"}]
    /\ scanned \in [Programs -> Nat] /\ current \in [Programs -> BOOLEAN]
    /\ intent \in [Keys -> Values] /\ lost \in BOOLEAN /\ torn \in BOOLEAN
    /\ edits \in 0..MaxEdits /\ crashes \in 0..MaxCrashes

\* What the operator wrote stays in the file although programs write it too, unless one
\* writes from memory a file that was changed since it read it, or dies while it writes
\* (fileSource.Scan).
OperatorIsKept ==
    ~lost /\ (\A p \in Programs : pc[p] # "writing") =>
        \A k \in Keys : intent[k] # Missing => file[k] = intent[k]

\* A program that ends because a key is missing runs at last when it is started again and
\* again, although others write over its keys from what they had read before; unless the
\* file is left in a state that cannot be parsed, or was read while it was written, which
\* lets two programs keep each other from starting for ever (NewConfig, Scan).
StartsInTheEnd ==
    \A p \in Programs : pc[p] = "stopped" ~>
        (pc[p] = "running" \/ torn \/ (broken /\ \A q \in Programs : pc[q] # "writing"))
=============================================================================
