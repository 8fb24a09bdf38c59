-------------------------------- MODULE Rooms --------------------------------
(***************************************************************************)
(* The rooms of one property, the room types they are filed under and the  *)
(* amenity catalogue (RoomsService, RoomTypesService, AmenitiesService).   *)
(*                                                                         *)
(* A request is a row read, checks, and a transaction: other requests come *)
(* between.  Creating or removing rooms recounts them in the transaction:  *)
(* the count is read by one statement and written by the next, and READ    *)
(* COMMITTED shows neither the rows of another open transaction.           *)
(***************************************************************************)
EXTENDS Integers, FiniteSets, FiniteSetsExt, Functions

CONSTANTS
    RoomRows, TypeRows,  \* rows that may be inserted, integers: lowest first
    Numbers,             \* room numbers
    Names,               \* names given to types by hand
    Heads,               \* guests a type may be said to take
    Amenities,
    Desks,               \* requests that run at once
    RoomOperations,      \* \subseteq {"create", "bulk", "move", "specs", "remove",
                         \*            "type", "edit", "drop", "amenity"}
    Null

VARIABLES
    rooms,       \* row -> [status, number, type]
    types,       \* row -> [status, private, name, shape, amenities]
    catalogue,   \* amenity -> [scope, status]
    roomCount,   \* properties.room_count
    desk,        \* request -> what it has read and is about to do
    drifted,     \* history: the last recount was crossed by another
    edits        \* history: types two edits met on

roomVars == <<rooms, types, catalogue, roomCount, desk, drifted, edits>>

Statuses == {"NONE", "LIVE", "DELETED"}
Shapes == [max : Heads, base : Heads, adults : Heads, children : Heads \cup {0}]
\* A type is named by hand, or for the rooms it is minted for.
TypeNames == {{n} : n \in Names} \cup (SUBSET Numbers \ {{}})
Scopes == {"ROOM", "PROPERTY"}

NoRoom == [status |-> "NONE", number |-> Null, type |-> Null]
NoType == [status |-> "NONE", private |-> FALSE, name |-> {}, shape |-> Null, amenities |-> {}]
Idle == [step |-> "IDLE"]

Live == {r \in RoomRows : rooms[r].status = "LIVE"}
LiveTypes == {t \in TypeRows : types[t].status = "LIVE"}
Fresh(table) == {x \in DOMAIN table : table[x].status = "NONE"}

\* The occupancy of a type: it sleeps its base, admits no more adults than it
\* sleeps, and sleeps no more than it admits.
assertOccupancy(shape) ==
    /\ shape.base >= 1 /\ shape.adults >= 1 /\ shape.children >= 0
    /\ shape.max >= shape.base
    /\ shape.max >= shape.adults
    /\ shape.max <= shape.adults + shape.children

RoomsInit ==
    /\ rooms = [r \in RoomRows |-> NoRoom]
    /\ types = [t \in TypeRows |-> NoType]
    /\ catalogue \in [Amenities -> {[scope |-> s, status |-> "ACTIVE"] : s \in Scopes}]
    /\ roomCount = 0
    /\ desk = [d \in Desks |-> Idle]
    /\ drifted = FALSE
    /\ edits = {}

(***************************************************************************)
(* What other open transactions hold: rows they wrote, and numbers their   *)
(* uncommitted rows have taken in the unique index.                        *)
(***************************************************************************)
Open(d) == {o \in Desks \ {d} : desk[o].step = "RECOUNTED"}
Unlocked(d, r) == \A o \in Open(d) : r \notin DOMAIN desk[o].writes
NumberHeld(d, n) ==
    \E o \in Open(d) : \E r \in DOMAIN desk[o].writes :
        desk[o].writes[r].status = "LIVE" /\ desk[o].writes[r].number = n
NumbersFree(ns) == \A r \in Live : rooms[r].number \notin ns

Becomes(d, state) == desk' = [desk EXCEPT ![d] = state]

\* resolveForScope: every amenity attached is of the scope; archived ones too.
resolveForScope(ids, scope) == \A a \in ids : catalogue[a].scope = scope

(***************************************************************************)
(* Room types.                                                             *)
(***************************************************************************)
NameFree(t, name) == \A u \in LiveTypes \ {t} : types[u].name # name

\* The type the rooms of a request are minted is private when it is one room.
MintedRow(private, name, shape, as) ==
    [status |-> "LIVE", private |-> private, name |-> name, shape |-> shape, amenities |-> as]

createType(d) ==
    /\ "type" \in RoomOperations /\ desk[d] = Idle /\ Fresh(types) # {}
    /\ \E name \in {{n} : n \in Names}, shape \in Shapes, as \in SUBSET Amenities :
          /\ assertOccupancy(shape) /\ resolveForScope(as, "ROOM") /\ NameFree(Null, name)
          /\ types' = [types EXCEPT ![Min(Fresh(types))] = MintedRow(FALSE, name, shape, as)]
    /\ UNCHANGED <<rooms, catalogue, roomCount, desk, drifted, edits>>

Merged(row, patch) == [k \in DOMAIN row |-> IF k \in DOMAIN patch THEN patch[k] ELSE row[k]]

\* Validated is the row as it would be.
Weighed(shape, patch) == Merged(shape, patch)

ShapePatches == {[x \in {k} |-> v] : k \in {"max", "base", "adults", "children"}, v \in Heads}

\* An edit of a type: the row is read and the patch weighed against it ...
ReadType(d, t) ==
    /\ t \in LiveTypes
    /\ \E patch \in ShapePatches :
          /\ assertOccupancy(Weighed(types[t].shape, patch))
          /\ Becomes(d, [step |-> "EDITING", type |-> t, patch |-> patch,
                         amenities |-> types[t].amenities])
    /\ edits' = IF \E o \in Desks \ {d} : desk[o].step = "EDITING" /\ desk[o].type = t
                THEN edits \cup {t} ELSE edits
    /\ UNCHANGED <<rooms, types, catalogue, roomCount, drifted>>

\* ... and replaces its amenities, if it does, by any of the right scope.
ReadAmenities(d, t) ==
    /\ t \in LiveTypes
    /\ \E as \in SUBSET Amenities :
          /\ resolveForScope(as, "ROOM")
          /\ Becomes(d, [step |-> "EDITING", type |-> t, patch |-> <<>>, amenities |-> as])
    /\ UNCHANGED <<rooms, types, catalogue, roomCount, drifted, edits>>

ReadEdit(d) ==
    /\ "edit" \in RoomOperations /\ desk[d] = Idle
    /\ \E t \in TypeRows : ReadType(d, t) \/ ReadAmenities(d, t)

\* A room's own specifications are its private type's; a shared type is refused.
ReadSpecs(d) ==
    /\ "specs" \in RoomOperations /\ desk[d] = Idle
    /\ \E r \in Live : types[rooms[r].type].private /\ ReadType(d, rooms[r].type)

updateType(d) ==
    /\ desk[d].step = "EDITING"
    /\ types' = [types EXCEPT ![desk[d].type].shape = Merged(@, desk[d].patch),
                              ![desk[d].type].amenities = desk[d].amenities]
    /\ Becomes(d, Idle)
    /\ UNCHANGED <<rooms, catalogue, roomCount, drifted, edits>>

\* A type is not removed under live rooms: they are counted, then it goes.
CountRooms(d) ==
    /\ "drop" \in RoomOperations /\ desk[d] = Idle
    /\ \E t \in LiveTypes : /\ \A r \in Live : rooms[r].type # t
                            /\ Becomes(d, [step |-> "DROPPING", type |-> t])
    /\ UNCHANGED <<rooms, types, catalogue, roomCount, drifted, edits>>

removeType(d) ==
    /\ desk[d].step = "DROPPING"
    /\ types' = [types EXCEPT ![desk[d].type].status = "DELETED"]
    /\ Becomes(d, Idle)
    /\ UNCHANGED <<rooms, catalogue, roomCount, drifted, edits>>

(***************************************************************************)
(* Creating rooms.                                                         *)
(***************************************************************************)

\* The numbers asked for are free; the type is named, or to be minted.
assertRoomNumbersFree(d) ==
    /\ "create" \in RoomOperations /\ desk[d] = Idle
    /\ \E ns \in SUBSET Numbers \ {{}}, t \in TypeRows \cup {Null} :
          /\ NumbersFree(ns)
          /\ Becomes(d, [step |-> "CHECKED", numbers |-> ns, type |-> t])
    /\ UNCHANGED <<rooms, types, catalogue, roomCount, drifted, edits>>

\* requireRoomType, or the minting of a type, which commits by itself: it
\* bears the rooms' numbers for a name, and one room's type is private.
resolveTypeForNewRooms(d) ==
    LET ns == desk[d].numbers
        goesOn(t) == Becomes(d, [step |-> "TYPED", numbers |-> ns, type |-> t, bulk |-> FALSE])
    IN  /\ desk[d].step = "CHECKED"
        /\ \/ /\ desk[d].type \in LiveTypes
              /\ goesOn(desk[d].type)
              /\ UNCHANGED types
           \/ /\ desk[d].type = Null /\ NameFree(Null, ns) /\ Fresh(types) # {}
              /\ \E shape \in {s \in Shapes : assertOccupancy(s) /\ s.max = s.adults} :
                    types' = [types EXCEPT ![Min(Fresh(types))] =
                                 MintedRow(Cardinality(ns) = 1, ns, shape, {})]
              /\ goesOn(Min(Fresh(types)))
           \/ /\ IF desk[d].type = Null THEN ~NameFree(Null, ns) ELSE desk[d].type \notin LiveTypes
              /\ Becomes(d, Idle)
              /\ UNCHANGED types
        /\ UNCHANGED <<rooms, catalogue, roomCount, drifted, edits>>

\* An extra amenity of the request is unknown, or not a room's: it is refused,
\* and the type it minted stays.
RefuseExtras(d) ==
    /\ desk[d].step = "TYPED" /\ ~desk[d].bulk
    /\ \E as \in SUBSET Amenities : ~resolveForScope(as, "ROOM")
    /\ Becomes(d, Idle)
    /\ UNCHANGED <<rooms, types, catalogue, roomCount, drifted, edits>>

\* recountRooms: what is committed, and what this transaction has written.
Counted(d, writes) ==
    Cardinality({r \in RoomRows : IF r \in DOMAIN writes THEN writes[r].status = "LIVE"
                                  ELSE rooms[r].status = "LIVE"})

Recounted(d, writes, gone) ==
    Becomes(d, [step |-> "RECOUNTED", writes |-> writes, gone |-> gone,
                count |-> Counted(d, writes), crossed |-> FALSE])

\* Bulk creation names a live type and skips the numbers that exist.
ReadBulk(d) ==
    /\ "bulk" \in RoomOperations /\ desk[d] = Idle
    /\ \E t \in LiveTypes, ns \in SUBSET Numbers \ {{}} :
          Becomes(d, [step |-> "TYPED", numbers |-> ns, type |-> t, bulk |-> TRUE])
    /\ UNCHANGED <<rooms, types, catalogue, roomCount, drifted, edits>>

\* Rows for the numbers, one each, the lowest fresh rows no transaction holds.
Allocated(d, ns, t) ==
    LET fresh == {r \in Fresh(rooms) : Unlocked(d, r)}
        rows == CHOOSE S \in SUBSET fresh :
                   Cardinality(S) = Cardinality(ns)
                   /\ \A r \in S, u \in fresh : u < r => u \in S
        numbered == CHOOSE f \in [rows -> ns] : IsInjective(f)
    IN  [r \in rows |-> [status |-> "LIVE", number |-> numbered[r], type |-> t]]

InsertRooms(d) ==
    LET asked == desk[d].numbers
        ns == IF desk[d].bulk THEN {n \in asked : NumbersFree({n})} ELSE asked
        fresh == {r \in Fresh(rooms) : Unlocked(d, r)}
    IN  /\ desk[d].step = "TYPED"
        /\ \/ /\ NumbersFree(ns) /\ \A n \in ns : ~NumberHeld(d, n)
              /\ Cardinality(fresh) >= Cardinality(ns)
              /\ Recounted(d, Allocated(d, ns, desk[d].type), {})
           \/ \* the unique index waits for the other row, and refuses
              /\ ~NumbersFree(ns) \/ \E n \in ns : NumberHeld(d, n)
              /\ Becomes(d, Idle)
        /\ UNCHANGED <<rooms, types, catalogue, roomCount, drifted, edits>>

\* The count is written and the transaction commits.
CommitRooms(d) ==
    LET w == desk[d]
    IN  /\ w.step = "RECOUNTED"
        /\ rooms' = [r \in RoomRows |-> IF r \in DOMAIN w.writes THEN w.writes[r] ELSE rooms[r]]
        /\ types' = [t \in TypeRows |-> IF t \in w.gone THEN [types[t] EXCEPT !.status = "DELETED"]
                                        ELSE types[t]]
        /\ roomCount' = w.count
        /\ drifted' = w.crossed
        /\ desk' = [o \in Desks |-> IF o = d THEN Idle
                                    ELSE IF o \in Open(d) THEN [desk[o] EXCEPT !.crossed = TRUE]
                                    ELSE desk[o]]
        /\ UNCHANGED <<catalogue, edits>>

(***************************************************************************)
(* Moving a room to another type or number, and removing it.               *)
(***************************************************************************)

\* Any live type of the property will do, a private one included.
ReadMove(d) ==
    /\ "move" \in RoomOperations /\ desk[d] = Idle
    /\ \E r \in Live, t \in LiveTypes, n \in Numbers :
          /\ t # rooms[r].type \/ n # rooms[r].number
          /\ Becomes(d, [step |-> "MOVING", room |-> r, type |-> t, number |-> n])
    /\ UNCHANGED <<rooms, types, catalogue, roomCount, drifted, edits>>

updateRoom(d) ==
    LET r == desk[d].room
        n == desk[d].number
        clash == rooms[r].status = "LIVE" /\ \E q \in Live \ {r} : rooms[q].number = n
    IN  /\ desk[d].step = "MOVING" /\ Unlocked(d, r) /\ ~NumberHeld(d, n)
        /\ rooms' = IF clash THEN rooms
                    ELSE [rooms EXCEPT ![r].number = n, ![r].type = desk[d].type]
        /\ Becomes(d, Idle)
        /\ UNCHANGED <<types, catalogue, roomCount, drifted, edits>>

\* The room and its type are read: neither may be gone.
ReadRemove(d) ==
    /\ "remove" \in RoomOperations /\ desk[d] = Idle
    /\ \E r \in Live : /\ rooms[r].type \in LiveTypes
                       /\ Becomes(d, [step |-> "REMOVING", room |-> r, type |-> rooms[r].type])
    /\ UNCHANGED <<rooms, types, catalogue, roomCount, drifted, edits>>

\* A private type goes with the room it was minted for.
removeRoom(d) ==
    LET r == desk[d].room
        t == desk[d].type
    IN  /\ desk[d].step = "REMOVING" /\ Unlocked(d, r)
        /\ Recounted(d, [q \in {r} |-> [rooms[r] EXCEPT !.status = "DELETED"]],
                     IF types[t].private THEN {t} ELSE {})
        /\ UNCHANGED <<rooms, types, catalogue, roomCount, drifted, edits>>

\* The catalogue: an amenity is rescoped, archived (and kept), or restored.
updateAmenity(d) ==
    /\ "amenity" \in RoomOperations /\ desk[d] = Idle
    /\ \E a \in Amenities, row \in [scope : Scopes, status : {"ACTIVE", "ARCHIVED"}] :
          catalogue' = [catalogue EXCEPT ![a] = row]
    /\ UNCHANGED <<rooms, types, roomCount, desk, drifted, edits>>

RoomsNext ==
    \E d \in Desks :
       \/ createType(d) \/ ReadEdit(d) \/ ReadSpecs(d) \/ updateType(d)
       \/ CountRooms(d) \/ removeType(d)
       \/ assertRoomNumbersFree(d) \/ resolveTypeForNewRooms(d) \/ RefuseExtras(d)
       \/ ReadBulk(d) \/ InsertRooms(d) \/ CommitRooms(d)
       \/ ReadMove(d) \/ updateRoom(d) \/ ReadRemove(d) \/ removeRoom(d)
       \/ updateAmenity(d)

RoomsSpec == RoomsInit /\ [][RoomsNext]_roomVars

(***************************************************************************)
(* Properties.                                                             *)
(***************************************************************************)

\* Every row has the columns of its table.
RoomsTypeOK ==
    /\ \A r \in RoomRows : rooms[r] = NoRoom \/ rooms[r] \in
          [status : {"LIVE", "DELETED"}, number : Numbers, type : TypeRows]
    /\ \A t \in TypeRows : types[t] = NoType \/ types[t] \in
          [status : {"LIVE", "DELETED"}, private : BOOLEAN, name : TypeNames, shape : Shapes,
           amenities : SUBSET Amenities]
    /\ catalogue \in [Amenities -> [scope : Scopes, status : {"ACTIVE", "ARCHIVED"}]]
    /\ roomCount \in 0..Cardinality(RoomRows)
    /\ drifted \in BOOLEAN
    /\ edits \subseteq TypeRows

\* properties.room_count is the number of live rooms, unless the transaction
\* that wrote it was open while another that changed the rooms committed.
CountIsRooms == ~drifted => roomCount = Cardinality(Live)

\* "the number an owner sees on their portfolio can never drift from the rooms
\* that actually exist" (RoomsService): two recounts that overlap leave it wrong.
CountNeverDrifts == roomCount = Cardinality(Live)

\* No two live rooms of the property bear one number, whichever of creation,
\* bulk creation and renumbering raced to it.
NumbersDiffer == \A r, q \in Live : rooms[r].number = rooms[q].number => r = q

\* A live type's occupancy agrees with itself, unless two edits of it overlapped:
\* each weighed its patch against a row the other was about to change.
OccupancyAgrees == \A t \in LiveTypes \ edits : assertOccupancy(types[t].shape)

\* "a type cannot take live rooms with it" (RoomTypesService.remove): a live room is
\* filed under a live type.  Removing a room removes its private type, and another
\* room may have been moved under it; that room can then not be removed either.
LiveRoomHasLiveType == \A r \in Live : rooms[r].type \in LiveTypes

\* "finding out a number was taken afterwards would leave an orphan type behind"
\* (RoomsService.create): a private type nobody lives under, which no list shows,
\* is left by a refused extra amenity all the same.
NoOrphanType ==
    \A t \in LiveTypes :
        types[t].private => \/ \E r \in Live : rooms[r].type = t
                            \/ \E d \in Desks : desk[d].step \in {"TYPED", "RECOUNTED"}

\* "an edit that keeps an already-attached (now archived) amenity must not fail"
\* (AmenitiesService.resolveForScope): what a live type has may be sent again.
AttachedIsAttachable == \A t \in LiveTypes : resolveForScope(types[t].amenities, "ROOM")
=============================================================================
