------------------------------ MODULE SharedMemory ------------------------------
(***************************************************************************)
(* test_03_07/shm: a server makes a shared memory segment and prints it as a  *)
(* string, again and again; a client attaches and writes the alphabet into    *)
(* it, one letter at a time, with nothing between them but the memory.  The   *)
(* segment lives as long as the kernel, or until the server's destructor.     *)
(***************************************************************************)
EXTENDS Naturals, Sequences

CONSTANTS
    ShmServers, ShmClients, \* runs of the two programs
    Alphabet,               \* letters the client writes (26)
    Memory                  \* bytes of the segment (4096), all 0 when it is made

VARIABLES
    asroot,     \* whether they run as root: a segment of mode 0 can be attached
    seg,        \* the segment: whether it exists, its mode, who is attached
    mem,        \* its bytes; 0 ends a string
    ppc,        \* a process's place
    at,         \* the client's letter, the server's place in the string
    shown       \* what a server has printed of the string it is printing

vars == <<asroot, seg, mem, ppc, at, shown>>

Processes == ShmServers \cup ShmClients
NoSegment == [made |-> FALSE, mode |-> 0, users |-> {}]
NewSegment(mode) == [made |-> TRUE, mode |-> mode, users |-> {}]
Zero == [i \in 1..Memory |-> 0]

Init ==
    /\ asroot \in BOOLEAN
    /\ seg = NoSegment
    /\ mem = Zero
    /\ ppc = [p \in Processes |-> "off"]
    /\ at = [p \in Processes |-> 1]
    /\ shown = [p \in ShmServers |-> <<>>]

Goto(p, place) == ppc' = [ppc EXCEPT ![p] = place]

-----------------------------------------------------------------------------
(* Shm::Shm: create or get, then attach. *)

\* Create: IPC_EXCL, mode 0666.  A segment of an earlier run ends the program.
Create(p) ==
    /\ p \in ShmServers /\ ppc[p] = "off"
    /\ IF seg.made THEN Goto(p, "exited") /\ UNCHANGED seg
       ELSE seg' = NewSegment(6) /\ Goto(p, "attach")
    /\ UNCHANGED <<asroot, mem, at, shown>>

\* Get: IPC_CREAT alone makes a segment of mode 0 if there is none.
Get(p) ==
    /\ p \in ShmClients /\ ppc[p] = "off"
    /\ seg' = IF seg.made THEN seg ELSE NewSegment(0)
    /\ Goto(p, "attach")
    /\ UNCHANGED <<asroot, mem, at, shown>>

\* shmat fails for want of permission, or because the segment has gone; the
\* program ends and the segment stays.
Attach(p) ==
    /\ ppc[p] = "attach"
    /\ IF seg.made /\ (seg.mode = 6 \/ asroot)
       THEN seg' = [seg EXCEPT !.users = @ \cup {p}] /\ Goto(p, "use")
       ELSE Goto(p, "exited") /\ UNCHANGED seg
    /\ UNCHANGED <<asroot, mem, at, shown>>

-----------------------------------------------------------------------------
(* The two programs. *)

\* mem[c - 'A'] = c
Write(p) ==
    /\ p \in ShmClients /\ ppc[p] = "use"
    /\ at[p] <= Alphabet
    /\ mem' = [mem EXCEPT ![at[p]] = at[p]]
    /\ at' = [at EXCEPT ![p] = @ + 1]
    /\ UNCHANGED <<asroot, seg, ppc, shown>>

\* main returns; ~Shm does nothing for a user, and the kernel detaches it.
ClientEnds(p) ==
    /\ p \in ShmClients /\ ppc[p] = "use"
    /\ at[p] > Alphabet
    /\ seg' = [seg EXCEPT !.users = @ \ {p}]
    /\ Goto(p, "exited")
    /\ UNCHANGED <<asroot, mem, at, shown>>

\* printf("%s\n", mem), a byte at a time while the client writes.
PrintByte(p) ==
    /\ p \in ShmServers /\ ppc[p] = "use"
    /\ IF mem[at[p]] = 0 \/ at[p] = Memory
       THEN /\ at' = [at EXCEPT ![p] = 1]
            /\ shown' = [shown EXCEPT ![p] = <<>>]
       ELSE /\ shown' = [shown EXCEPT ![p] = Append(@, mem[at[p]])]
            /\ at' = [at EXCEPT ![p] = @ + 1]
    /\ UNCHANGED <<asroot, seg, mem, ppc>>

\* The server's loop has no end: it is interrupted, and ~Shm does not run.
Kill(p) ==
    /\ ppc[p] \in {"attach", "use"}
    /\ seg' = [seg EXCEPT !.users = @ \ {p}]
    /\ Goto(p, "killed")
    /\ UNCHANGED <<asroot, mem, at, shown>>

\* ipcrm, between runs.
Remove ==
    /\ seg.made
    /\ \A p \in Processes : ppc[p] \notin {"attach", "use"}
    /\ seg' = NoSegment
    /\ mem' = Zero
    /\ UNCHANGED <<asroot, ppc, at, shown>>

Next ==
    \/ \E p \in Processes :
          Create(p) \/ Get(p) \/ Attach(p) \/ Write(p) \/ ClientEnds(p)
          \/ PrintByte(p) \/ Kill(p)
    \/ Remove

-----------------------------------------------------------------------------
(* Properties. *)

TypeOK ==
    /\ seg.made \in BOOLEAN /\ seg.mode \in {0, 6} /\ seg.users \subseteq Processes
    /\ mem \in [1..Memory -> 0..Alphabet]
    /\ ppc \in [Processes -> {"off", "attach", "use", "exited", "killed"}]
    /\ at \in [Processes -> 1..Memory]

(* No lock and no terminator of the client's own: what a server prints while  *)
(* clients write, one after the other or at once, is a beginning of the       *)
(* alphabet, because new memory is zero and letters come in order.           *)
PrintsABeginning ==
    \A p \in ShmServers : \A i \in DOMAIN shown[p] : shown[p][i] = i

(* The memory holds each letter at its own place, a server has shown what it  *)
(* has passed, and the segment of mode 6 is that of the one server at work.   *)
SegmentInv ==
    /\ TypeOK
    /\ seg \in [made : BOOLEAN, mode : {0, 6}, users : SUBSET Processes]
    /\ \A j \in 1..Memory : mem[j] \in {0, j}
    /\ shown \in [ShmServers -> Seq(Nat)]
    /\ \A p \in ShmServers : at[p] = Len(shown[p]) + 1
    /\ PrintsABeginning
    /\ \A p \in Processes : ppc[p] \in {"attach", "use"} => seg.made
    /\ \A p, r \in ShmServers :
          ppc[p] \in {"attach", "use"} /\ ppc[r] \in {"attach", "use"} => p = r

(* The creator's segment cannot be taken: a second creator exits, and a client *)
(* that came first leaves a segment nobody but root can use, which no server *)
(* ever attaches.                                                            *)
OneCreator ==
    \A p, r \in ShmServers :
        ppc[p] = "use" /\ ppc[r] \in {"attach", "use"} => p = r
=============================================================================
