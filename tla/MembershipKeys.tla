---------------------------- MODULE MembershipKeys ----------------------------
(***************************************************************************)
(* What the community server promises about its media encryption key: the  *)
(* current key is held by people who are in the community (or own it), and *)
(* taking someone out of the community and replacing the key are one step. *)
(* CommunityServer is checked to implement this.                           *)
(***************************************************************************)
EXTENDS Naturals

CONSTANT Person

VARIABLES
    open,      \* is the community being served?
    inside,    \* members
    owners,    \* everyone who was installed as owner; they never lose access
    epoch,     \* generation of the current key
    holders    \* who was given the current key

avars == <<open, inside, owners, epoch, holders>>

AInit == /\ open = FALSE /\ inside = {} /\ owners = {} /\ epoch = 0 /\ holders = {}

\* An owner is installed before the community opens.
Install(p) ==
    /\ ~open
    /\ owners' = owners \cup {p}
    /\ UNCHANGED <<open, inside, epoch, holders>>

Open ==
    /\ ~open /\ open' = TRUE
    /\ inside' \in SUBSET Person
    /\ epoch' = 1 /\ holders' = {}
    /\ UNCHANGED owners

\* A newcomer gets the key; the first one into an empty community owns it.
Admit(p) ==
    /\ open
    /\ inside' = inside \cup {p} /\ holders' = holders \cup {p}
    /\ owners' \in {owners, owners \cup {p}}
    /\ UNCHANGED <<open, epoch>>

HandKey(p) ==
    /\ open /\ p \in inside \cup owners
    /\ holders' = holders \cup {p}
    /\ UNCHANGED <<open, inside, owners, epoch>>

Replace(out) ==
    /\ open
    /\ inside' = inside \ out
    /\ epoch' = epoch + 1 /\ holders' = {}
    /\ UNCHANGED <<open, owners>>

ANext == \/ Open
         \/ \E p \in Person : Install(p) \/ Admit(p) \/ HandKey(p) \/ Replace({p})
         \/ Replace({})

ASpec == AInit /\ [][ANext]_avars

\* The promise itself, a consequence of the steps above.
HoldersBelong == holders \subseteq inside \cup owners
=============================================================================
