------------------------------- MODULE WlMap -------------------------------
(***************************************************************************)
(* struct wl_map (wayland-util.c): the table from object ids to objects    *)
(* that each end of a connection keeps.  It has one array for the ids the  *)
(* client hands out and one for those of the server.  The end that owns an *)
(* id space also keeps its freed entries in a list threaded through the    *)
(* array; the other end only mirrors the ids it is told.                   *)
(*                                                                         *)
(* An entry is an integer: 0 for NULL, a positive number for a pointer     *)
(* (Zombie being one), and a negative one for a link of the free list.     *)
(***************************************************************************)
EXTENDS Integers, Sequences

CONSTANT WL_SERVER_ID_START  \* the first id of the server's space

ASSUME IdAssumption == WL_SERVER_ID_START \in Nat \ {0, 1}

Zombie == 1    \* WL_ZOMBIE_OBJECT

Sides == {"client", "server"}

(* (i << 1) | 1 in the code.                                               *)
Link(i)    == -(i + 1)
LinkOf(e)  == -e
IsFree(e)  == e < 0

Base(side) == IF side = "client" THEN 0 ELSE WL_SERVER_ID_START

(* The array an id belongs to, and its place in it.                        *)
Space(id) == IF id < WL_SERVER_ID_START THEN "client" ELSE "server"
Place(id) == id - Base(Space(id)) + 1

wl_map_init(side) ==
    [side |-> side, client |-> <<>>, server |-> <<>>, free_list |-> 0]

(* wl_map_insert_new: the id it returns, and the map it leaves.            *)
NewId(m) ==
    Base(m.side) + (IF m.free_list # 0 THEN LinkOf(m.free_list) - 1
                    ELSE Len(m[m.side]))

(* Mutation: the entry stays on the free list.                             *)
InsertNewKeepsLink(m, x) ==
    IF m.free_list # 0
    THEN [m EXCEPT ![m.side][LinkOf(m.free_list)] = x]
    ELSE [m EXCEPT ![m.side] = Append(@, x)]

wl_map_insert_new(m, x) ==
    IF m.free_list # 0
    THEN [m EXCEPT ![m.side][LinkOf(m.free_list)] = x,
                   !.free_list = m[m.side][LinkOf(m.free_list)]]
    ELSE [m EXCEPT ![m.side] = Append(@, x)]

(* wl_map_insert_at returns -1 unless CanInsertAt.                         *)
CanInsertAt(m, id) == Place(id) <= Len(m[Space(id)]) + 1

wl_map_insert_at(m, id, x) ==
    IF ~CanInsertAt(m, id) THEN m
    ELSE IF Place(id) = Len(m[Space(id)]) + 1
    THEN [m EXCEPT ![Space(id)] = Append(@, x)]
    ELSE [m EXCEPT ![Space(id)][Place(id)] = x]

(* wl_map_reserve_new returns -1 unless CanReserve: the id must be of the  *)
(* other end's space, and unused or the next one.                          *)
CanReserve(m, id) ==
    /\ Space(id) # m.side
    /\ CanInsertAt(m, id)
    /\ Place(id) <= Len(m[Space(id)]) => m[Space(id)][Place(id)] = 0

wl_map_reserve_new(m, id) ==
    IF CanReserve(m, id) THEN wl_map_insert_at(m, id, 0) ELSE m

(* The last entry freed points at the one before, the first one at nothing,*)
(* so that it looks like NULL.  Ids of the other space are left alone.     *)
wl_map_remove(m, id) ==
    IF Space(id) # m.side THEN m
    ELSE [m EXCEPT ![m.side][Place(id)] = m.free_list,
                   !.free_list = Link(id - Base(m.side))]

wl_map_lookup(m, id) ==
    LET s == m[Space(id)]
    IN  IF Place(id) \in 1 .. Len(s) /\ ~IsFree(s[Place(id)])
        THEN s[Place(id)] ELSE 0

-----------------------------------------------------------------------------
(* The places of the free list, followed from its head.                    *)
FreeChain(m) ==
    LET entries == m[m.side]
        step[k \in 0 .. Len(entries)] ==
            IF k = 0 THEN m.free_list
            ELSE IF step[k - 1] = 0 THEN 0
            ELSE entries[LinkOf(step[k - 1])]
    IN  [k \in 0 .. Len(entries) |-> LinkOf(step[k])]

(* The free list ends, has no entry twice, and its entries hold no object; *)
(* every other entry, `kept' apart, does.                                  *)
FreeListSound(m, kept) ==
    LET entries == m[m.side]
        chain   == FreeChain(m)
        onList  == {chain[k] : k \in DOMAIN chain} \ {0}
    IN  /\ chain[Len(entries)] = 0
        /\ \A k, l \in DOMAIN chain : chain[k] = chain[l] => k = l \/ chain[k] = 0
        /\ \A p \in 1 .. Len(entries) \ kept : p \in onList <=> entries[p] <= 0
=============================================================================
