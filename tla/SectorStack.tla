---------------------------- MODULE SectorStack -----------------------------
(***************************************************************************)
(* What the record cache does to the flash, as a stack of sectors: a store *)
(* adds to the sector on top or to a new one above it, and keeps what the  *)
(* sector has; an upload erases the sector on top as a whole and then goes *)
(* back to the one below; a loss of power leaves the sector as it was or,  *)
(* in the middle of a store, empty.                                        *)
(***************************************************************************)
EXTENDS Naturals, Sequences

CONSTANTS MaxSector, SectorSize

VARIABLES
  sectors,   (* what the sectors hold                                      *)
  top,       (* the sector on top, as a restart finds it                   *)
  all_sent,  (* a restart takes the stack for empty                        *)
  held       (* what the sector on top had, while it is being rewritten    *)

Init ==
  /\ sectors = [i \in 0 .. MaxSector |-> << >>]
  /\ top = 0 /\ all_sent = TRUE /\ held = {}

Announce ==
  /\ all_sent' = FALSE
  /\ UNCHANGED <<sectors, top, held>>

NewSector ==
  /\ held = {} /\ ~all_sent /\ top < MaxSector
  /\ top' = top + 1
  /\ UNCHANGED <<sectors, all_sent, held>>

\* The first half of a store.  When the last sector is full it is given up.
Erase ==
  /\ held = {} /\ ~all_sent
  /\ \/ held' = {sectors[top]}
     \/ top = MaxSector /\ held' = {<< >>}
  /\ sectors' = [sectors EXCEPT ![top] = << >>]
  /\ UNCHANGED <<top, all_sent>>

\* The second half: the sector has what it had, and more behind it.
Write(old) ==
  LET new == sectors'[top] IN
  /\ old \in held /\ held' = {}
  /\ sectors' = [sectors EXCEPT ![top] = new]
  /\ Len(new) \in Len(old) .. SectorSize /\ SubSeq(new, 1, Len(old)) = old
  /\ UNCHANGED <<top, all_sent>>

Cut ==
  /\ held' = {}
  /\ UNCHANGED <<sectors, top, all_sent>>

Clear ==
  /\ held = {}
  /\ sectors' = [sectors EXCEPT ![top] = << >>]
  /\ UNCHANGED <<top, all_sent, held>>

\* Only an empty sector is left, and only an empty stack is said to be empty.
Back ==
  /\ held = {} /\ sectors[top] = << >>
  /\ IF top = 0 THEN all_sent' = TRUE /\ top' = 0
     ELSE top' = top - 1 /\ all_sent' = all_sent
  /\ UNCHANGED <<sectors, held>>

Next ==
  \/ Announce \/ NewSector \/ Erase \/ \E old \in held : Write(old)
  \/ Cut \/ Clear \/ Back

Spec == Init /\ [][Next]_<<sectors, top, all_sent, held>>

\* No store and no upload touches a sector below the one on top, whatever
\* handlers are cut short (write_to_flash, sector_upload_done).
OlderKept ==
  [][\A i \in 0 .. MaxSector : i < top => sectors'[i] = sectors[i]]_<<sectors, top>>
=============================================================================
