------------------------------ MODULE RoomPhotos ------------------------------
(***************************************************************************)
(* Photos of room types (RoomTypePhotosService) and of rooms               *)
(* (RoomPhotosService), and the cover a room is listed with.               *)
(*                                                                         *)
(* Both services are the same: the rows are read, an object is stored or   *)
(* deleted, and single statements write by what was read.  A partial       *)
(* unique index allows one primary photo per gallery.                      *)
(***************************************************************************)
EXTENDS Integers, FiniteSets

CONSTANTS
    TypeGalleries, RoomGalleries,   \* what the photos are of
    TypeOf,                         \* the type of a room
    Photos,                         \* rows that may be inserted: 1..n, by age
    MaxPhotos,                      \* MAX_PHOTOS_PER_ROOM_TYPE, MAX_PHOTOS_PER_ROOM
    Uploaders,                      \* requests that run at once
    Null

VARIABLES
    inserted,    \* rows ever inserted
    photos,      \* row -> [gallery, primary, order], or Null
    request,     \* uploader -> what it has read
    tangled      \* history: galleries two requests met on

photoVars == <<inserted, photos, request, tangled>>

Galleries == TypeGalleries \cup RoomGalleries
PhotoRows == [gallery : Galleries, primary : BOOLEAN, order : 0..MaxPhotos]
Quiet == [step |-> "IDLE", gallery |-> Null]

PhotosInit ==
    /\ inserted = 0
    /\ photos = [p \in Photos |-> Null]
    /\ request = [u \in Uploaders |-> Quiet]
    /\ tangled = {}

\* A gallery in its order: by sort order, then by age.
rowsFor(g) == {p \in Photos : photos[p] # Null /\ photos[p].gallery = g}
Before(p, q) == photos[p].order < photos[q].order \/ (photos[p].order = photos[q].order /\ p < q)
Leading(S) == CHOOSE p \in S : \A q \in S \ {p} : Before(p, q)
Primary(g) == {p \in rowsFor(g) : photos[p].primary}

Reads(u, state) ==
    /\ request[u] = Quiet
    /\ request' = [request EXCEPT ![u] = state]
    /\ tangled' = IF \E o \in Uploaders \ {u} : request[o].gallery = state.gallery
                  THEN tangled \cup {state.gallery} ELSE tangled

Answers(u) == request' = [request EXCEPT ![u] = Quiet]

(***************************************************************************)
(* Uploading: the rows are counted, the object is stored, a row inserted.  *)
(***************************************************************************)
CountPhotos(u, g) ==
    /\ Cardinality(rowsFor(g)) < MaxPhotos
    /\ Reads(u, [step |-> "STORING", gallery |-> g, found |-> Cardinality(rowsFor(g))])
    /\ UNCHANGED <<inserted, photos>>

\* The first photo is the primary one; a second first one hits the index.
InsertPhoto(u) ==
    LET g == request[u].gallery
        first == request[u].found = 0
    IN  /\ request[u].step = "STORING"
        /\ \/ /\ first /\ Primary(g) # {}
              /\ UNCHANGED <<inserted, photos>>
           \/ /\ ~(first /\ Primary(g) # {})
              /\ inserted + 1 \in Photos
              /\ inserted' = inserted + 1
              /\ photos' = [photos EXCEPT ![inserted + 1] =
                     [gallery |-> g, primary |-> first, order |-> request[u].found]]
        /\ Answers(u)
        /\ UNCHANGED tangled

uploadTypePhoto(u) == \E g \in TypeGalleries : CountPhotos(u, g)
uploadRoomPhoto(u) == \E g \in RoomGalleries : CountPhotos(u, g)

(***************************************************************************)
(* Choosing the primary: cleared and set in one transaction, by the id the *)
(* request found; a row deleted meanwhile is not there to be set.          *)
(***************************************************************************)
FindPhoto(u, g) ==
    /\ \E p \in rowsFor(g) : Reads(u, [step |-> "CHOOSING", gallery |-> g, photo |-> p])
    /\ UNCHANGED <<inserted, photos>>

ChoosePrimary(u) ==
    LET g == request[u].gallery
    IN  /\ request[u].step = "CHOOSING"
        /\ photos' = [p \in Photos |-> IF p \in rowsFor(g)
                                       THEN [photos[p] EXCEPT !.primary = (p = request[u].photo)]
                                       ELSE photos[p]]
        /\ Answers(u)
        /\ UNCHANGED <<inserted, tangled>>

setPrimaryTypePhoto(u) == \E g \in TypeGalleries : FindPhoto(u, g)
setPrimaryRoomPhoto(u) == \E g \in RoomGalleries : FindPhoto(u, g)

\* The photos sent take their place in the list; one that is not sent keeps its own.
Reordered(u, g) ==
    /\ request[u] = Quiet
    /\ \E sent \in SUBSET rowsFor(g) : \E place \in [sent -> 0..(Cardinality(sent) - 1)] :
          /\ \A p, q \in sent : place[p] = place[q] => p = q
          /\ photos' = [p \in Photos |-> IF p \in sent THEN [photos[p] EXCEPT !.order = place[p]]
                                         ELSE photos[p]]
    /\ UNCHANGED <<inserted, request, tangled>>

reorderTypePhotos(u) == \E g \in TypeGalleries : Reordered(u, g)
reorderRoomPhotos(u) == \E g \in RoomGalleries : Reordered(u, g)

(***************************************************************************)
(* Removing: the row goes, then the object, then the next photo is made    *)
(* the primary one -- the first of the rows read at the start.             *)
(***************************************************************************)

\* The photo to promote when p goes.
Heir(p, g) ==
    IF photos[p].primary /\ rowsFor(g) # {p} THEN Leading(rowsFor(g) \ {p}) ELSE Null

FindDoomed(u, g) ==
    /\ \E p \in rowsFor(g) :
          Reads(u, [step |-> "DELETING", gallery |-> g, photo |-> p, heir |-> Heir(p, g)])
    /\ UNCHANGED <<inserted, photos>>

DeleteRow(u) ==
    /\ request[u].step = "DELETING"
    /\ photos' = [photos EXCEPT ![request[u].photo] = Null]
    /\ request' = [request EXCEPT ![u] = IF @.heir = Null THEN Quiet
                                         ELSE [@ EXCEPT !.step = "PROMOTING"]]
    /\ UNCHANGED <<inserted, tangled>>

\* The heir may be gone, or another may be primary by now, which the index refuses.
Promote(u) ==
    LET heir == request[u].heir
        g == request[u].gallery
    IN  /\ request[u].step = "PROMOTING"
        /\ photos' = IF heir \in rowsFor(g) /\ Primary(g) \subseteq {heir}
                     THEN [photos EXCEPT ![heir].primary = TRUE] ELSE photos
        /\ Answers(u)
        /\ UNCHANGED <<inserted, tangled>>

removeTypePhoto(u) == \E g \in TypeGalleries : FindDoomed(u, g)
removeRoomPhoto(u) == \E g \in RoomGalleries : FindDoomed(u, g)

PhotosNext ==
    \E u \in Uploaders :
       \/ uploadTypePhoto(u) \/ uploadRoomPhoto(u) \/ InsertPhoto(u)
       \/ setPrimaryTypePhoto(u) \/ setPrimaryRoomPhoto(u) \/ ChoosePrimary(u)
       \/ reorderTypePhotos(u) \/ reorderRoomPhotos(u)
       \/ removeTypePhoto(u) \/ removeRoomPhoto(u) \/ DeleteRow(u) \/ Promote(u)

PhotosSpec == PhotosInit /\ [][PhotosNext]_photoVars

\* The cover of a room: its own primary photo, else its type's.
coverPhoto(r) == IF Primary(r) # {} THEN Primary(r) ELSE Primary(TypeOf[r])

(***************************************************************************)
(* Properties.                                                             *)
(***************************************************************************)

\* Rows have the columns of their table, and a gallery one primary photo at most.
PhotosTypeOK ==
    /\ inserted \in Photos \cup {0}
    /\ photos \in [Photos -> PhotoRows \cup {Null}]
    /\ \A g \in Galleries : Cardinality(Primary(g)) <= 1
    /\ \A g \in Galleries \ tangled : Cardinality(rowsFor(g)) <= MaxPhotos
    /\ tangled \subseteq Galleries

\* "Removing the thumbnail must not leave the type without one" (remove), nor any
\* other request: a gallery with photos has a cover, unless two requests overlapped
\* on it or a removal is about to promote.
GalleryHasCover ==
    \A g \in Galleries \ tangled :
        rowsFor(g) # {} =>
            Primary(g) # {} \/ \E u \in Uploaders : request[u].step = "PROMOTING"
                                                    /\ request[u].gallery = g

\* A room that has a photo, or whose type has, is listed with a cover.
RoomIsCovered ==
    \A r \in RoomGalleries :
        /\ {r, TypeOf[r]} \cap tangled = {}
        /\ \A u \in Uploaders : request[u] = Quiet
        /\ rowsFor(r) \cup rowsFor(TypeOf[r]) # {}
        => coverPhoto(r) # {}

\* "Removing the thumbnail must not leave the type without one": it does when the
\* photo to promote is removed meanwhile.
AlwaysACover ==
    \A g \in Galleries :
        rowsFor(g) # {} =>
            Primary(g) # {} \/ \E u \in Uploaders : request[u].gallery = g
=============================================================================
