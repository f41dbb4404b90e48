------------------------------- MODULE BanFile -------------------------------
(***************************************************************************)
(* `budu ban` and `budu unban` (budu/src/ban.rs): processes that edit the   *)
(* blocklist file the proxy reads, by writing a temporary file next to it   *)
(* and renaming it.  The temporary name is the same for every process, there *)
(* is no lock, and a process may die or hit an I/O error between any two    *)
(* system calls.  The proxy may read the file at any moment (Supervisor).   *)
(*                                                                         *)
(* A file is a sequence of lines.  Names point to inodes: a process that    *)
(* has a file open keeps writing into it after a rename.                    *)
(***************************************************************************)
EXTENDS Naturals, Sequences, FiniteSets

CONSTANTS
    Editor,     \* processes
    Net,        \* networks that may be banned
    Initial,    \* contents the file may start with
    Unreadable, \* can a read of an existing file fail (I/O error, not UTF-8)?
    Inode,      \* files
    MaxEdits    \* bound: commands run

Kind == {"permanent", "timed"}
Op == {"ban", "unban"}
LineType == [net : SUBSET Net, kind : Kind \cup {"hole"}]

\* What a reader finds where nothing was written.
Hole == [net |-> {}, kind |-> "hole"]

ASSUME BanFileAssumption ==
    /\ Unreadable \in BOOLEAN /\ MaxEdits \in Nat /\ Net # {}
    /\ Initial \subseteq Seq(LineType)
    /\ IsFiniteSet(Editor) /\ IsFiniteSet(Inode)
    /\ Cardinality(Inode) > Cardinality(Editor) + 1

VARIABLES
    data,               \* the content of every inode
    path, tmp,          \* the inodes blocklist_file and its temporary name point to, if any
    pc, job,            \* per process: control, the command
    buf, fd, at,        \* the lines to write, the open inode, how many are written
    flaky,              \* may reading the file fail?
    edits,              \* commands started
    intended,           \* history: every list some command set out to write
    crossed, mingled    \* history: commands under way that met another one between its read
                        \* and its rename, or with the temporary file open

vars == <<data, path, tmp, pc, job, buf, fd, at, flaky, edits, intended, crossed, mingled>>

\* An unban has no kind: it stands as "permanent".
JobType == {j \in [op : Op, net : Net, kind : Kind] : j.op = "unban" => j.kind = "permanent"}

\* The content behind a name.
Content(name) == UNION {{data[i]} : i \in name}

-----------------------------------------------------------------------------
\* Fault: only a permanent line is recognised as the target's.
WithoutPermanent(lines, net) ==
    SelectSeq(lines, LAMBDA l : l.net # {net} \/ l.kind = "timed")

\* without: every line that names the target goes; comments and others stay.
Without(lines, net) ==
    LET kept[k \in 0..Len(lines)] ==
            IF k = 0 THEN <<>>
            ELSE IF lines[k].net = {net} THEN kept[k - 1]
            ELSE Append(kept[k - 1], lines[k])
    IN kept[Len(lines)]

\* What a command makes of the lines it read.
Edited(lines, j) ==
    IF j.op = "ban"
    THEN Append(Without(lines, j.net), [net |-> {j.net}, kind |-> j.kind])
    ELSE Without(lines, j.net)

Init ==
    /\ path \in {{}, {CHOOSE i \in Inode : TRUE}}
    /\ \E lines \in Initial : data = [i \in Inode |-> IF i \in path THEN lines ELSE <<>>]
    /\ intended = Content(path)
    /\ tmp = {}
    /\ pc = [e \in Editor |-> "idle"]
    /\ job = [e \in Editor |-> CHOOSE j \in JobType : TRUE]
    /\ buf = [e \in Editor |-> <<>>]
    /\ fd = [e \in Editor |-> {}]
    /\ at = [e \in Editor |-> 0]
    /\ flaky \in {FALSE, Unreadable}
    /\ edits = 0
    /\ crossed = {} /\ mingled = {}

\* The command parses and blocklist_file is set.
Start(e) ==
    /\ pc[e] = "idle" /\ edits < MaxEdits
    /\ edits' = edits + 1
    /\ \E j \in JobType : job' = [job EXCEPT ![e] = j]
    /\ pc' = [pc EXCEPT ![e] = "read"]
    /\ UNCHANGED <<data, path, tmp, buf, fd, at, intended, flaky, crossed, mingled>>

\* The commands that have read the list and not yet replaced it, and those of them
\* that have the temporary file open.
Editing == {e \in Editor : pc[e] \in {"create", "write"}}
Writing == {e \in Editor : pc[e] = "write"}

\* A command meets those that are there already.
Meet(met, there, e) == IF there = {} THEN met ELSE met \cup there \cup {e}

\* read_lines: any error reads as an empty file.  An unban that removes nothing
\* ends here.
ReadLines(e) ==
    /\ pc[e] = "read"
    /\ \E lines \in Content(path) \cup (IF flaky \/ path = {} THEN {<<>>} ELSE {}) :
        LET new == Edited(lines, job[e])
        IN IF job[e].op = "unban" /\ new = lines
           THEN /\ pc' = [pc EXCEPT ![e] = "idle"]
                /\ UNCHANGED <<buf, intended, crossed>>
           ELSE /\ buf' = [buf EXCEPT ![e] = new]
                /\ intended' = intended \cup {new}
                /\ crossed' = Meet(crossed, Editing, e)
                /\ pc' = [pc EXCEPT ![e] = "create"]
    /\ UNCHANGED <<data, path, tmp, job, fd, at, flaky, edits, mingled>>

Free == Inode \ (path \cup tmp \cup UNION {fd[e] : e \in Editor})

\* Fault: a temporary file left behind by a dead command is not truncated.
CreateTmpKeeps(e) ==
    /\ pc[e] = "create"
    /\ tmp' = IF tmp = {} THEN {CHOOSE i \in Free : TRUE} ELSE tmp
    /\ fd' = [fd EXCEPT ![e] = tmp']
    /\ data' = [i \in Inode |-> IF i \in tmp' \ tmp THEN <<>> ELSE data[i]]
    /\ at' = [at EXCEPT ![e] = 0]
    /\ pc' = [pc EXCEPT ![e] = "write"]
    /\ mingled' = Meet(mingled, Writing, e)
    /\ UNCHANGED <<path, job, buf, edits, intended, flaky, crossed>>

\* File::create on the temporary name: a new file, or the one that is there,
\* truncated, whoever is writing to it.
CreateTmp(e) ==
    /\ pc[e] = "create"
    /\ tmp' = IF tmp = {} THEN {CHOOSE i \in Free : TRUE} ELSE tmp
    /\ fd' = [fd EXCEPT ![e] = tmp']
    /\ data' = [i \in Inode |-> IF i \in tmp' THEN <<>> ELSE data[i]]
    /\ at' = [at EXCEPT ![e] = 0]
    /\ pc' = [pc EXCEPT ![e] = "write"]
    /\ mingled' = Meet(mingled, Writing, e)
    /\ UNCHANGED <<path, job, buf, edits, intended, flaky, crossed>>

\* A write at an offset: what lies between the end and the offset is a hole.
WriteAt(lines, n, line) ==
    [k \in 1..(IF Len(lines) > n THEN Len(lines) ELSE n + 1) |->
        IF k = n + 1 THEN line ELSE IF k <= Len(lines) THEN lines[k] ELSE Hole]

\* writeln! of the next line, through the process's own open file.
WriteLine(e) ==
    /\ pc[e] = "write" /\ at[e] < Len(buf[e])
    /\ data' = [i \in Inode |-> IF i \in fd[e] THEN WriteAt(data[i], at[e], buf[e][at[e] + 1])
                                ELSE data[i]]
    /\ at' = [at EXCEPT ![e] = @ + 1]
    /\ UNCHANGED <<path, tmp, pc, job, buf, fd, edits, intended, flaky, crossed, mingled>>

\* The command no longer has a part in the file.
Leave(e) == crossed' = crossed \ {e} /\ mingled' = mingled \ {e}

\* rename, which fails when another process has taken the temporary file away; a
\* command given --reload goes on to signal the proxy.
Rename(e) ==
    /\ pc[e] = "write" /\ at[e] = Len(buf[e])
    /\ fd' = [fd EXCEPT ![e] = {}]
    /\ IF tmp = {}
       THEN /\ pc' = [pc EXCEPT ![e] = "idle"]
            /\ UNCHANGED <<path, tmp>>
       ELSE /\ path' = tmp /\ tmp' = {}
            /\ \E next \in {"signal", "idle"} : pc' = [pc EXCEPT ![e] = next]
    /\ Leave(e)
    /\ UNCHANGED <<data, job, buf, at, edits, intended, flaky>>

\* send_sighup, or its failure: the edit stands either way.
SendSighup(e) ==
    /\ pc[e] = "signal"
    /\ pc' = [pc EXCEPT ![e] = "idle"]
    /\ UNCHANGED <<data, path, tmp, job, buf, fd, at, edits, intended, flaky, crossed, mingled>>

\* The process dies, or a system call fails and the command gives up: its files
\* stay as they are.
GiveUp(e) ==
    /\ pc[e] \in {"read", "create", "write", "signal"}
    /\ pc' = [pc EXCEPT ![e] = "idle"]
    /\ fd' = [fd EXCEPT ![e] = {}]
    /\ Leave(e)
    /\ UNCHANGED <<data, path, tmp, job, buf, at, edits, intended, flaky>>

Next == \E e \in Editor : \/ Start(e) \/ ReadLines(e) \/ CreateTmp(e) \/ WriteLine(e)
                          \/ Rename(e) \/ SendSighup(e) \/ GiveUp(e)

Spec == Init /\ [][Next]_vars

-----------------------------------------------------------------------------
(* Properties. *)

\* Every variable of the ban commands keeps its type.
TypeOK ==
    /\ data \in [Inode -> Seq(LineType)]
    /\ path \subseteq Inode /\ tmp \subseteq Inode
    /\ pc \in [Editor -> {"idle", "read", "create", "write", "signal"}]
    /\ job \in [Editor -> JobType]
    /\ buf \in [Editor -> Seq(LineType)]
    /\ fd \in [Editor -> SUBSET Inode] /\ at \in [Editor -> Nat]
    /\ flaky \in BOOLEAN /\ edits \in 0..MaxEdits
    /\ crossed \subseteq Editor /\ mingled \subseteq Editor

\* The step is one of e's.
Stepped(e) == pc'[e] # pc[e] \/ at'[e] # at[e]

\* "Edits are atomic (write-temp + rename)" holds of a command that has the temporary
\* file for itself from its create to its rename: such a command never leaves in the
\* list anything but what was there or a list some command meant to write, whole,
\* whatever died half-way before it.  Two commands that have the file open at once
\* tear it, the claim notwithstanding: there is no lock (write_lines).
EditsAreAtomic ==
    [][\A e \in Editor \ mingled :
        Stepped(e) => Content(path)' \subseteq Content(path) \cup intended]_vars

\* The list the file stands for; a missing file is an empty list.
BL == INSTANCE BanList
        WITH Initial <- Initial \cup {<<>>},
             list <- IF path = {} THEN <<>> ELSE data[CHOOSE i \in path : TRUE]

\* Commands of which no two are at once between their read and their rename implement
\* the ban list, wherever they die or fail and whatever temporary file is left behind:
\* every change of the list is of exactly the entry that was named, and only a ban
\* that could not read the list forgets the others; an unban never does.  Commands
\* that do cross (lost updates, torn files) are excused, and only they, and only until
\* they end (ban, unban, without, read_lines).
ImplementsBanList ==
    /\ BL!BanInit
    /\ [][BL!BanNext \/ \E e \in crossed : Stepped(e)]_(BL!banVars)
=============================================================================
