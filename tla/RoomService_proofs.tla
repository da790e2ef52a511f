------------------------- MODULE RoomService_proofs -------------------------
(***************************************************************************)
(* Proofs for RoomService, for every set of codes, games and players and    *)
(* every bound.                                                             *)
(*                                                                          *)
(* What has to hold of one room is gathered in Good; the actions then only  *)
(* differ in which rooms they keep and in the one room they put back, and   *)
(* Keep and Put prove the invariant for both shapes once.                   *)
(***************************************************************************)
EXTENDS RoomService, TLAPS

\* The invariant of one seat, given whom the tokens ts were issued to: its
\* token, device, input and history are of one player.
GoodSeat(room, r, ts) ==
    /\ room.token[r] <= Len(ts)
    /\ room.token[r] = NoToken => room.device[r] = NoDevice
    /\ room.token[r] # NoToken =>
           /\ DeviceId(ts[room.token[r]]) = room.device[r]
           /\ room.since[r] \in 1 .. room.token[r]
           /\ ts[room.since[r]] = ts[room.token[r]]
    /\ room.input[r].seq # 0 =>
           room.token[r] # NoToken /\ room.input[r].by = ts[room.token[r]]

\* The invariant of a single room.
Good(room, ts) ==
    /\ room \in Room /\ room.token["host"] # NoToken
    /\ \A r \in Role : GoodSeat(room, r, ts)

\* A leave that was proved during a membership is of its member.
Pending ==
    \A c \in DOMAIN rooms, r \in Role, t \in 1 .. Len(tokens) :
        /\ <<c, r, t>> \in leaving
        /\ rooms[c].since[r] # NoToken /\ t >= rooms[c].since[r]
        => tokens[t] = tokens[rooms[c].since[r]]

Ind ==
    /\ TypeOK
    /\ \A c \in DOMAIN rooms : Good(rooms[c], tokens)
    /\ OneRoomPerHost /\ Pending

\* A part of the rooms, unchanged.
Part(kept) ==
    /\ DOMAIN kept \subseteq DOMAIN rooms
    /\ kept = [c \in DOMAIN kept |-> kept[c]]
    /\ \A c \in DOMAIN kept : kept[c] = rooms[c]

LEMMA Bounds ==
    /\ TTL \in Nat /\ MaxTokens \in Nat /\ MaxSeq \in Nat
    /\ NoDevice \notin Players /\ Anonymous \subseteq Players
    /\ "host" \in Role /\ "guest" \in Role
BY PlayersAssumption, BoundsAssumption DEF Role

\* What typing says of the fields of a room.
LEMMA Fields ==
    ASSUME NEW room \in Room, NEW r \in Role
    PROVE  /\ room.token \in [Role -> 0 .. MaxTokens] /\ room.token[r] \in Nat
           /\ room.since \in [Role -> 0 .. MaxTokens] /\ room.since[r] \in Nat
           /\ room.device \in [Role -> Devices]
           /\ room.input \in [Role -> Snapshot] /\ room.input[r] \in Snapshot
           /\ room.age \in 0 .. MaxAge /\ room.game \in Games
<1>1. /\ room.token \in [Role -> 0 .. MaxTokens] /\ room.device \in [Role -> Devices]
      /\ room.since \in [Role -> 0 .. MaxTokens]
      /\ room.input \in [Role -> Snapshot] /\ room.age \in 0 .. MaxAge /\ room.game \in Games
  BY DEF Room
<1> QED  BY <1>1, Bounds

LEMMA Ids == \A p \in Players : DeviceId(p) \in Devices
BY DEF DeviceId, Devices

LEMMA InitInd == Init => Ind
<1> SUFFICES ASSUME Init PROVE Ind
  OBVIOUS
<1>1. DOMAIN rooms = {} /\ tokens = <<>> /\ Len(tokens) = 0 /\ tokens \in Seq(Players)
  BY DEF Init
<1>2. rooms = [c \in DOMAIN rooms |-> rooms[c]]
  BY DEF Init
<1>3. leaving = {}
  BY DEF Init
<1> QED  BY <1>1, <1>2, <1>3, Bounds DEF Ind, TypeOK, OneRoomPerHost, Pending

\* A room stays good when another token is issued.
LEMMA Grow ==
    ASSUME NEW room, NEW ts \in Seq(Players), NEW p \in Players, Good(room, ts)
    PROVE  Good(room, Append(ts, p))
<1> DEFINE us == Append(ts, p)
<1>1. Len(us) = Len(ts) + 1 /\ Len(ts) \in Nat /\ \A i \in 1 .. Len(ts) : us[i] = ts[i]
  OBVIOUS
<1>2. room \in Room
  BY DEF Good
<1>3. ASSUME NEW r \in Role PROVE GoodSeat(room, r, us)
  <2>1. /\ room.token[r] \in Nat /\ room.token[r] <= Len(ts) /\ room.since[r] \in Nat
        /\ GoodSeat(room, r, ts)
    BY <1>2, Fields DEF Good, GoodSeat
  <2>2. room.token[r] # NoToken =>
            room.token[r] \in 1 .. Len(ts) /\ room.since[r] \in 1 .. Len(ts)
    BY <2>1, <1>1 DEF NoToken, GoodSeat
  <2>3. room.token[r] # NoToken => /\ us[room.token[r]] = ts[room.token[r]]
                                   /\ us[room.since[r]] = ts[room.since[r]]
    BY <2>2, <1>1
  <2>4. room.token[r] <= Len(us)
    BY <2>1, <1>1
  <2> HIDE DEF us
  <2> QED  BY <2>1, <2>3, <2>4 DEF GoodSeat
<1> HIDE DEF us
<1>4. Good(room, us)
  BY <1>2, <1>3 DEF Good
<1> QED  BY <1>4 DEF us

\* Tokens once issued stay issued to the same player.
LEMMA TokensGrow ==
    ASSUME Ind, UNCHANGED tokens \/ \E p \in Players : IssueTo(p)
    PROVE  /\ tokens' \in Seq(Players) /\ Len(tokens') <= MaxTokens
           /\ Len(tokens) \in Nat /\ Len(tokens') \in Nat /\ Len(tokens) <= Len(tokens')
           /\ \A i \in 1 .. Len(tokens) : tokens'[i] = tokens[i]
<1>1. tokens \in Seq(Players) /\ Len(tokens) <= MaxTokens
  BY DEF Ind, TypeOK
<1> QED  BY <1>1, Bounds DEF IssueTo

LEMMA Keep ==
    ASSUME Ind, Part(rooms'), UNCHANGED tokens, leaving' \subseteq leaving
    PROVE  Ind'
<1>1. TypeOK'
  BY DEF Ind, Part, TypeOK
<1>2. \A c \in DOMAIN rooms' : Good(rooms'[c], tokens')
  BY DEF Ind, Part
<1>3. OneRoomPerHost'
  BY DEF Ind, Part, OneRoomPerHost
<1>4. Pending'
  BY DEF Ind, Part, Pending
<1> QED  BY <1>1, <1>2, <1>3, <1>4 DEF Ind

\* The member of a seat is the one of before, a new one, or gone.
Succeeds(room, c, r) ==
    \/ room.since[r] \in {NoToken, Fresh}
    \/ c \in DOMAIN rooms /\ room.since[r] = rooms[c].since[r]

LEMMA Put ==
    ASSUME Ind, NEW kept, Part(kept), NEW c \in Codes, NEW room,
           rooms' = With(kept, c, room), Good(room, tokens'),
           \/ UNCHANGED tokens
           \/ \E p \in Players : IssueTo(p),
           leaving' \subseteq leaving, \A r \in Role : Succeeds(room, c, r),
           \A d \in DOMAIN kept \ {c} :
               room.device["host"] # NoDevice =>
                   kept[d].device["host"] # room.device["host"]
    PROVE  Ind'
<1>1. /\ DOMAIN rooms' = DOMAIN kept \cup {c}
      /\ rooms'[c] = room
      /\ \A d \in DOMAIN kept \ {c} : rooms'[d] = kept[d]
      /\ rooms' = [d \in DOMAIN rooms' |-> rooms'[d]]
  BY DEF With
<1>2. DOMAIN kept \subseteq DOMAIN rooms /\ \A d \in DOMAIN kept : kept[d] = rooms[d]
  BY DEF Part
<1>3. /\ tokens \in Seq(Players) /\ DOMAIN rooms \subseteq Codes
      /\ leaving \subseteq Codes \X Role \X (1 .. Len(tokens))
  BY DEF Ind, TypeOK
<1>4. /\ tokens' \in Seq(Players) /\ Len(tokens') <= MaxTokens
      /\ Len(tokens) \in Nat /\ Len(tokens') \in Nat /\ Len(tokens) <= Len(tokens')
      /\ \A i \in 1 .. Len(tokens) : tokens'[i] = tokens[i]
  BY TokensGrow
<1>5. ASSUME NEW d \in DOMAIN rooms' PROVE Good(rooms'[d], tokens')
  <2>1. CASE d = c
    BY <2>1, <1>1
  <2>2. CASE d # c
    <3>1. rooms'[d] = rooms[d] /\ Good(rooms[d], tokens)
      BY <2>2, <1>1, <1>2 DEF Ind
    <3> QED  BY <3>1, <1>3, Grow DEF IssueTo
  <2> QED  BY <2>1, <2>2
<1>6. TypeOK'
  <2>1. \A d \in DOMAIN rooms', r \in Role : rooms'[d].token[r] <= Len(tokens')
    BY <1>5 DEF Good, GoodSeat
  <2>2. \A d \in DOMAIN rooms' : rooms'[d] \in Room
    BY <1>5 DEF Good
  <2>3. DOMAIN rooms' \subseteq Codes
    BY <1>1, <1>2, <1>3
  <2>4. leaving' \subseteq Codes \X Role \X (1 .. Len(tokens'))
    <3>1. 1 .. Len(tokens) \subseteq 1 .. Len(tokens')
      BY <1>4
    <3> QED  BY <3>1, <1>3
  <2> QED  BY <2>1, <2>2, <2>3, <2>4, <1>1, <1>4 DEF TypeOK
<1>7. OneRoomPerHost'
  <2>1. \A d, e \in DOMAIN kept :
            /\ kept[d].device["host"] = kept[e].device["host"]
            /\ kept[d].device["host"] # NoDevice
            => d = e
    BY <1>2 DEF Ind, OneRoomPerHost
  <2> QED  BY <2>1, <1>1 DEF OneRoomPerHost
<1>8. Pending'
  <2> SUFFICES ASSUME NEW d \in DOMAIN rooms', NEW r \in Role, NEW t \in 1 .. Len(tokens'),
                      <<d, r, t>> \in leaving',
                      rooms'[d].since[r] # NoToken, t >= rooms'[d].since[r]
               PROVE  tokens'[t] = tokens'[rooms'[d].since[r]]
    BY DEF Pending
  <2>1. t \in 1 .. Len(tokens) /\ <<d, r, t>> \in leaving
    BY <1>3
  <2>2. rooms'[d].since[r] \in Nat
    BY <1>5, Fields DEF Good
  <2>3. rooms'[d].since[r] # Fresh
    BY <2>1, <2>2, <1>4 DEF Fresh
  <2>4. d \in DOMAIN rooms /\ rooms'[d].since[r] = rooms[d].since[r]
    <3>1. CASE d = c
      BY <3>1, <1>1, <2>3 DEF Succeeds
    <3>2. CASE d # c
      BY <3>2, <1>1, <1>2
    <3> QED  BY <3>1, <3>2
  <2>5. tokens[t] = tokens[rooms'[d].since[r]]
    BY <2>1, <2>4 DEF Ind, Pending
  <2>6. rooms'[d].since[r] \in 1 .. Len(tokens)
    BY <2>1, <2>2, <1>4 DEF NoToken
  <2> QED  BY <2>1, <2>5, <2>6, <1>4
<1> QED  BY <1>5, <1>6, <1>7, <1>8 DEF Ind

LEMMA ReapedPart ==
    Ind => /\ Part(Reaped)
           /\ \A c \in DOMAIN rooms \ DOMAIN Reaped : rooms[c].age > TTL
BY DEF Ind, TypeOK, Part, Reaped, Restrict, IsExpired

LEMMA WithoutPart ==
    ASSUME NEW kept, Part(kept), NEW cs
    PROVE  Part(Without(kept, cs)) /\ DOMAIN Without(kept, cs) = DOMAIN kept \ cs
BY DEF Part, Without, Restrict

\* A token issued for a seat goes to the last place of the list.
LEMMA Issued ==
    ASSUME Ind, NEW p \in Players, IssueTo(p)
    PROVE  /\ tokens' \in Seq(Players) /\ Len(tokens') = Fresh /\ tokens'[Fresh] = p
           /\ Fresh \in 1 .. MaxTokens
           /\ \A room : Good(room, tokens) => Good(room, tokens')
<1>1. tokens \in Seq(Players) /\ Len(tokens) \in Nat
  BY DEF Ind, TypeOK
<1>2. Len(tokens) < MaxTokens /\ tokens' = Append(tokens, p)
  BY DEF IssueTo
<1>3. /\ tokens' \in Seq(Players) /\ Len(tokens') = Fresh /\ tokens'[Fresh] = p
      /\ Fresh \in 1 .. MaxTokens
  BY <1>1, <1>2, Bounds DEF Fresh
<1> QED  BY <1>1, <1>2, <1>3, Grow

\* A seat whose token is replaced is good if its player gets the new one, or
\* if it was empty; the other seat has to be.
LEMMA RotatedGood ==
    ASSUME Ind, NEW p \in Players, IssueTo(p), NEW r \in Role,
           NEW room \in Room, r = "host" \/ room.token["host"] # NoToken,
           \A q \in Role \ {r} : GoodSeat(room, q, tokens), DeviceId(p) = room.device[r],
           room.input[r].seq # 0 => room.input[r].by = p,
           \/ room.since[r] = Fresh
           \/ room.since[r] \in 1 .. Len(tokens) /\ tokens[room.since[r]] = p
    PROVE  Good(Rotated(room, r), tokens')
<1> DEFINE new == Rotated(room, r)
<1>1. /\ tokens' \in Seq(Players) /\ Len(tokens') = Fresh /\ tokens'[Fresh] = p
      /\ Fresh \in 1 .. MaxTokens /\ Len(tokens) \in Nat /\ Fresh = Len(tokens) + 1
      /\ \A i \in 1 .. Len(tokens) : tokens'[i] = tokens[i]
  BY Issued, TokensGrow DEF Fresh
<1>2. /\ new \in Room /\ new.device = room.device /\ new.input = room.input
      /\ new.since = room.since /\ new.token = [room.token EXCEPT ![r] = Fresh]
  <2>1. [room.token EXCEPT ![r] = Fresh] \in [Role -> 0 .. MaxTokens]
    BY <1>1, Fields, Bounds
  <2>2. new = [room EXCEPT !.token = [room.token EXCEPT ![r] = Fresh]]
    BY DEF Rotated
  <2> HIDE DEF new
  <2> QED  BY <2>1, <2>2 DEF Room
<1>3. new.token[r] = Fresh /\ \A q \in Role \ {r} : new.token[q] = room.token[q]
  BY <1>2, Fields
<1>4. Fresh # NoToken /\ Fresh <= Len(tokens')
  BY <1>1 DEF NoToken
<1> HIDE DEF new
<1>5. GoodSeat(new, r, tokens')
  <2>1. new.since[r] \in 1 .. Fresh /\ tokens'[new.since[r]] = p
    BY <1>1, <1>2
  <2> QED  BY <2>1, <1>1, <1>2, <1>3, <1>4 DEF GoodSeat
<1>6. ASSUME NEW q \in Role \ {r} PROVE GoodSeat(new, q, tokens')
  <2>1. GoodSeat(room, q, tokens') 
    <3>1. room.token[q] \in Nat /\ room.since[q] \in Nat /\ GoodSeat(room, q, tokens)
      BY Fields
    <3>2. room.token[q] # NoToken =>
            room.token[q] \in 1 .. Len(tokens) /\ room.since[q] \in 1 .. Len(tokens)
      BY <3>1, <1>1 DEF GoodSeat, NoToken
    <3>3. room.token[q] # NoToken => /\ tokens'[room.token[q]] = tokens[room.token[q]]
                                     /\ tokens'[room.since[q]] = tokens[room.since[q]]
      BY <3>2, <1>1
    <3>4. room.token[q] <= Len(tokens')
      BY <3>1, <1>1 DEF GoodSeat
    <3> QED  BY <3>1, <3>3, <3>4 DEF GoodSeat
  <2> QED  BY <2>1, <1>2, <1>3 DEF GoodSeat
<1>7. new.token["host"] # NoToken
  BY <1>3, <1>4, Bounds
<1>8. Good(new, tokens')
  BY <1>2, <1>5, <1>6, <1>7 DEF Good
<1> QED  BY <1>8 DEF new

LEMMA NewGood ==
    ASSUME Ind, NEW p \in Players, IssueTo(p), NEW g \in Games
    PROVE  /\ Good(NewRoom(g, DeviceId(p), Fresh), tokens')
           /\ NewRoom(g, DeviceId(p), Fresh).device["host"] = DeviceId(p)
           /\ \A r \in Role : NewRoom(g, DeviceId(p), Fresh).since[r] \in {NoToken, Fresh}
<1> DEFINE new == NewRoom(g, DeviceId(p), Fresh)
<1>1. Len(tokens') = Fresh /\ tokens'[Fresh] = p /\ Fresh \in 1 .. MaxTokens
  BY Issued
<1>2. DeviceId(p) \in Devices /\ NoDevice \in Devices /\ NoInput \in Snapshot
  BY Ids, Bounds DEF Devices, NoInput, Snapshot
<1>3. /\ \A r \in Role : new.token[r] = (IF r = "host" THEN Fresh ELSE NoToken)
      /\ \A r \in Role : new.since[r] = (IF r = "host" THEN Fresh ELSE NoToken)
      /\ \A r \in Role : new.device[r] = (IF r = "host" THEN DeviceId(p) ELSE NoDevice)
      /\ \A r \in Role : new.input[r].seq = 0
  BY DEF NewRoom, NoInput
<1>4. new \in Room
  <2>1. 0 \in 0 .. MaxAge /\ NoToken \in 0 .. MaxTokens /\ Fresh \in 0 .. MaxTokens
    BY <1>1, Bounds DEF MaxAge, NoToken
  <2> QED  BY <2>1, <1>2 DEF NewRoom, Room
<1> HIDE DEF new
<1>5. Good(new, tokens')
  BY <1>1, <1>3, <1>4 DEF Good, GoodSeat, NoToken, Role
<1>6. new.device["host"] = DeviceId(p) /\ \A r \in Role : new.since[r] \in {NoToken, Fresh}
  BY <1>3, Bounds
<1> QED  BY <1>5, <1>6 DEF new

LEMMA VacatedGood ==
    ASSUME Ind, NEW room, Good(room, tokens)
    PROVE  /\ Good(Vacated(room), tokens) /\ Vacated(room).device["host"] = room.device["host"]
           /\ \A r \in Role : Vacated(room).since[r] \in {NoToken, room.since[r]}
<1> DEFINE new == Vacated(room)
<1>1. room \in Room /\ "host" # "guest"
  BY DEF Good
<1>2. /\ room.token \in [Role -> 0 .. MaxTokens] /\ room.device \in [Role -> Devices]
      /\ room.input \in [Role -> Snapshot] /\ room.since \in [Role -> 0 .. MaxTokens]
  BY <1>1, Bounds, Fields
<1>3. /\ new.token = [room.token EXCEPT !["guest"] = NoToken]
      /\ new.device = [room.device EXCEPT !["guest"] = NoDevice]
      /\ new.since = [room.since EXCEPT !["guest"] = NoToken]
      /\ new.input = [room.input EXCEPT !["guest"] = NoInput]
      /\ new = [room EXCEPT !.token = new.token, !.device = new.device, !.since = new.since,
                             !.input = new.input]
  BY <1>1 DEF Vacated, Room
<1>4. /\ new.token \in [Role -> 0 .. MaxTokens] /\ new.device \in [Role -> Devices]
      /\ new.since \in [Role -> 0 .. MaxTokens] /\ new.input \in [Role -> Snapshot]
  BY <1>2, <1>3, Bounds DEF NoToken, NoInput, Snapshot, Devices
<1> HIDE DEF new
<1>5. new \in Room
  BY <1>1, <1>3, <1>4 DEF Room
<1>6. /\ new.token["guest"] = NoToken /\ new.input["guest"].seq = 0
      /\ new.device["guest"] = NoDevice /\ new.since["guest"] = NoToken
      /\ new.token["host"] = room.token["host"] /\ new.input["host"] = room.input["host"]
      /\ new.device["host"] = room.device["host"] /\ new.since["host"] = room.since["host"]
  BY <1>2, <1>3, Bounds DEF NoInput
<1>7. GoodSeat(new, "host", tokens) /\ new.token["host"] # NoToken
  BY <1>6, Bounds DEF Good, GoodSeat
<1>8. GoodSeat(new, "guest", tokens)
  <2>1. Len(tokens) \in Nat
    BY DEF Ind, TypeOK
  <2> QED  BY <2>1, <1>6 DEF NoToken, GoodSeat
<1>9. Good(new, tokens)
  BY <1>5, <1>7, <1>8 DEF Good, Role
<1>10. \A r \in Role : new.since[r] \in {NoToken, room.since[r]}
  BY <1>6 DEF Role
<1> QED  BY <1>6, <1>9, <1>10 DEF new

\* The clock changes the age of rooms only.
LEMMA TickInd == Ind /\ Tick => Ind'
<1> SUFFICES ASSUME Ind, Tick PROVE Ind'
  OBVIOUS
<1>1. /\ DOMAIN rooms' = DOMAIN rooms /\ UNCHANGED <<tokens, leaving>>
      /\ rooms' = [c \in DOMAIN rooms' |-> rooms'[c]]
  BY DEF Tick
<1>2. ASSUME NEW c \in DOMAIN rooms
      PROVE  /\ rooms'[c] \in Room /\ rooms'[c].token = rooms[c].token
             /\ rooms'[c].device = rooms[c].device /\ rooms'[c].input = rooms[c].input
             /\ rooms'[c].since = rooms[c].since
  <2>1. rooms[c] \in Room /\ rooms[c].age \in 0 .. MaxAge /\ MaxAge \in Nat
    BY Bounds, Fields DEF Ind, TypeOK, MaxAge
  <2> DEFINE older == IF rooms[c].age < MaxAge THEN rooms[c].age + 1 ELSE rooms[c].age
  <2>2. older \in 0 .. MaxAge
    BY <2>1
  <2>3. rooms'[c] = [rooms[c] EXCEPT !.age = older]
    BY DEF Tick
  <2> HIDE DEF older
  <2> QED  BY <2>1, <2>2, <2>3 DEF Room
<1>3. \A c \in DOMAIN rooms' : Good(rooms'[c], tokens')
  BY <1>1, <1>2 DEF Ind, Good, GoodSeat
<1>4. TypeOK'
  BY <1>1, <1>2 DEF Ind, TypeOK
<1>5. OneRoomPerHost'
  BY <1>1, <1>2 DEF Ind, OneRoomPerHost
<1>6. Pending'
  BY <1>1, <1>2 DEF Ind, Pending
<1> QED  BY <1>3, <1>4, <1>5, <1>6 DEF Ind

LEMMA RefusedInd == Ind /\ Refused => Ind'
BY ReapedPart, Keep DEF Refused

LEMMA DropExpiredInd == \A c \in Codes : Ind /\ DropExpired(c) => Ind'
<1> SUFFICES ASSUME NEW c \in Codes, Ind, DropExpired(c) PROVE Ind'
  OBVIOUS
<1>1. Part(rooms)
  BY DEF Ind, TypeOK, Part
<1> QED  BY <1>1, WithoutPart, Keep DEF DropExpired

\* The rooms a host keeps when it opens a new one are other devices' rooms.
LEMMA CreateRoomInd ==
    ASSUME NEW p \in Players, NEW g \in Games, Ind, CreateRoom(p, g)
    PROVE  Ind'
<1> DEFINE kept == Without(Reaped, Superseded(Reaped, DeviceId(p)))
           room == NewRoom(g, DeviceId(p), Fresh)
<1>1. Part(kept) /\ DOMAIN kept = DOMAIN Reaped \ Superseded(Reaped, DeviceId(p))
  BY ReapedPart, WithoutPart
<1>2. \A d \in DOMAIN kept : Reaped[d] = kept[d]
  BY <1>1, ReapedPart DEF Part
<1>3. PICK c \in Codes : rooms' = With(kept, c, room)
  BY DEF CreateRoom, FreeCodes
<1>4. IssueTo(p) /\ leaving' \subseteq leaving
  BY DEF CreateRoom
<1>5. /\ Good(room, tokens') /\ room.device["host"] = DeviceId(p)
      /\ \A r \in Role : Succeeds(room, c, r)
  BY <1>4, NewGood DEF Succeeds
<1>6. \A d \in DOMAIN kept :
          DeviceId(p) # NoDevice => kept[d].device["host"] # DeviceId(p)
  BY <1>1, <1>2 DEF Superseded
<1> HIDE DEF kept, room
<1> QED  BY <1>1, <1>3, <1>4, <1>5, <1>6, Put

\* Replacing the token of a seat by one of the same player.
LEMMA RotateInd ==
    ASSUME Ind, NEW c \in DOMAIN Reaped, NEW r \in Role, NEW p \in Players,
           IssueTo(p), leaving' \subseteq leaving,
           rooms' = With(Reaped, c, Rotated(Reaped[c], r)),
           rooms[c].token[r] # NoToken, p = tokens[rooms[c].token[r]]
    PROVE  Ind'
<1>1. Part(Reaped) /\ c \in DOMAIN rooms /\ c \in Codes /\ Reaped[c] = rooms[c]
  BY ReapedPart DEF Part, Ind, TypeOK
<1>2. Good(rooms[c], tokens)
  BY <1>1 DEF Ind
<1> DEFINE room == Rotated(rooms[c], r)
<1>3. Good(room, tokens')
  <2>1. /\ rooms[c] \in Room /\ rooms[c].token["host"] # NoToken
        /\ \A q \in Role : GoodSeat(rooms[c], q, tokens)
    BY <1>2 DEF Good
  <2>2. /\ rooms[c].token[r] \in Nat /\ rooms[c].since[r] \in Nat
        /\ rooms[c].token[r] <= Len(tokens) /\ Len(tokens) \in Nat
    BY <2>1, Fields DEF GoodSeat, Ind, TypeOK
  <2>3. rooms[c].since[r] \in 1 .. Len(tokens) /\ tokens[rooms[c].since[r]] = p
    BY <2>1, <2>2 DEF GoodSeat
  <2>4. /\ DeviceId(p) = rooms[c].device[r]
        /\ rooms[c].input[r].seq # 0 => rooms[c].input[r].by = p
    BY <2>1 DEF GoodSeat
  <2> QED  BY <2>1, <2>3, <2>4, RotatedGood
<1>4. room.device = rooms[c].device /\ room.since = rooms[c].since
  BY <1>2 DEF Rotated, Good, Room
<1> HIDE DEF room
<1>7. \A q \in Role : Succeeds(room, c, q)
  BY <1>1, <1>4 DEF Succeeds
<1>5. \A d \in DOMAIN Reaped \ {c} :
          room.device["host"] # NoDevice => Reaped[d].device["host"] # room.device["host"]
  BY <1>1, <1>4 DEF Part, Ind, OneRoomPerHost
<1>6. rooms' = With(Reaped, c, room)
  BY <1>1 DEF room
<1> QED  BY <1>1, <1>3, <1>5, <1>6, <1>7, Put

\* Whose device is the one of a taken seat, and named, is its member.
LEMMA DeviceOf ==
    ASSUME Ind, NEW c \in DOMAIN rooms, NEW r \in Role, NEW p \in Players,
           DeviceId(p) = rooms[c].device[r], DeviceId(p) # NoDevice
    PROVE  rooms[c].token[r] # NoToken /\ p = tokens[rooms[c].token[r]]
<1>1. rooms[c].token[r] # NoToken /\ DeviceId(tokens[rooms[c].token[r]]) = DeviceId(p)
  BY DEF Ind, Good, GoodSeat
<1> QED  BY <1>1, Bounds DEF DeviceId

LEMMA JoinRoomInd ==
    ASSUME NEW c \in Codes, NEW p \in Players, NEW g \in Games, Ind, JoinRoom(c, p, g)
    PROVE  Ind'
<1> DEFINE old == Reaped[c]
<1>1. /\ c \in DOMAIN Reaped /\ IssueTo(p) /\ leaving' \subseteq leaving
      /\ Part(Reaped) /\ old = rooms[c] /\ Good(rooms[c], tokens) /\ c \in DOMAIN rooms
  BY ReapedPart DEF JoinRoom, Part, Ind
<1>2. CASE ~Full(old)
  <2> DEFINE seat == [rooms[c] EXCEPT !.device["guest"] = DeviceId(p), !.since["guest"] = Fresh]
             room == [Rotated(old, "guest") EXCEPT !.device["guest"] = DeviceId(p),
                                                   !.since["guest"] = Fresh]
  <2>1. rooms' = With(Reaped, c, room)
    BY <1>2 DEF JoinRoom
  <2>2. /\ rooms[c] \in Room /\ rooms[c].device \in [Role -> Devices]
        /\ rooms[c].since \in [Role -> 0 .. MaxTokens]
        /\ DeviceId(p) \in Devices /\ Fresh \in 0 .. MaxTokens
    BY <1>1, Issued, Ids, Bounds, Fields DEF Good
  <2>3. room = Rotated(seat, "guest")
    BY <1>1, <2>2 DEF Rotated, Room
  <2>4. rooms[c].token["guest"] = NoToken /\ rooms[c].input["guest"].seq = 0
    BY <1>1, <1>2, Bounds DEF Full, Good, GoodSeat
  <2>5. /\ seat.token = rooms[c].token /\ seat.input = rooms[c].input
        /\ seat.device = [rooms[c].device EXCEPT !["guest"] = DeviceId(p)]
        /\ seat.since = [rooms[c].since EXCEPT !["guest"] = Fresh]
        /\ seat \in Room
    <3>1. /\ [rooms[c].device EXCEPT !["guest"] = DeviceId(p)] \in [Role -> Devices]
          /\ [rooms[c].since EXCEPT !["guest"] = Fresh] \in [Role -> 0 .. MaxTokens]
      BY <2>2
    <3>2. seat = [rooms[c] EXCEPT !.device = [rooms[c].device EXCEPT !["guest"] = DeviceId(p)],
                                  !.since = [rooms[c].since EXCEPT !["guest"] = Fresh]]
      OBVIOUS
    <3> HIDE DEF seat
    <3> QED  BY <3>1, <3>2, <2>2 DEF Room
  <2>6. /\ seat.device["guest"] = DeviceId(p) /\ seat.device["host"] = rooms[c].device["host"]
        /\ seat.since["guest"] = Fresh /\ seat.since["host"] = rooms[c].since["host"]
    BY <2>2, <2>5, Bounds
  <2> HIDE DEF seat, room
  <2>7. GoodSeat(seat, "host", tokens) /\ seat.token["host"] # NoToken
    BY <1>1, <2>5, <2>6, Bounds DEF Good, GoodSeat
  <2>8. Good(room, tokens')
    <3>1. \A q \in Role \ {"guest"} : GoodSeat(seat, q, tokens)
      BY <2>7 DEF Role
    <3>2. seat.input["guest"].seq # 0 => seat.input["guest"].by = p
      BY <2>4, <2>5
    <3>3. "guest" \in Role /\ seat \in Room /\ seat.token["host"] # NoToken
      BY <2>5, <2>7, Bounds
    <3>4. DeviceId(p) = seat.device["guest"] /\ seat.since["guest"] = Fresh
      BY <2>6
    <3>5. Good(Rotated(seat, "guest"), tokens')
      BY <1>1, <3>1, <3>2, <3>3, <3>4, RotatedGood
    <3> QED  BY <2>3, <3>5
  <2>9. /\ room.device["host"] = rooms[c].device["host"] /\ room.since["guest"] = Fresh
        /\ room.since["host"] = rooms[c].since["host"]
    BY <2>3, <2>5, <2>6 DEF Rotated, Room
  <2>10. \A d \in DOMAIN Reaped \ {c} :
            room.device["host"] # NoDevice => Reaped[d].device["host"] # room.device["host"]
    BY <1>1, <2>9 DEF Part, Ind, OneRoomPerHost
  <2>11. \A r \in Role : Succeeds(room, c, r)
    BY <1>1, <2>9 DEF Succeeds, Role
  <2> QED  BY <1>1, <2>1, <2>8, <2>10, <2>11, Put
<1>3. CASE Full(old)
  <2>1. rooms' = With(Reaped, c, Rotated(Reaped[c], "guest")) /\ SameDevice(old, DeviceId(p))
    BY <1>3 DEF JoinRoom
  <2>2. rooms[c].token["guest"] # NoToken /\ p = tokens[rooms[c].token["guest"]]
    BY <2>1, <1>1, Bounds, DeviceOf DEF SameDevice
  <2> QED  BY <1>1, <2>1, <2>2, Bounds, RotateInd
<1> QED  BY <1>2, <1>3

\* Whoever proves a role with a token is the player it was issued to.
LEMMA ProvesSeat ==
    ASSUME Ind, NEW c \in DOMAIN rooms, NEW r \in Role, NEW t \in 1 .. Len(tokens),
           Proves(rooms[c], t, r)
    PROVE  /\ tokens[t] \in Players /\ DeviceId(tokens[t]) = rooms[c].device[r]
           /\ rooms[c].token[r] = t /\ t # NoToken
           /\ rooms[c].input[r].seq # 0 => rooms[c].input[r].by = tokens[t]
BY DEF Ind, TypeOK, Good, GoodSeat, Proves

LEMMA ResumeInd ==
    ASSUME NEW c \in Codes, NEW t \in 1 .. Len(tokens), Ind, Resume(c, t)
    PROVE  Ind'
<1>1. /\ c \in DOMAIN Reaped /\ IssueTo(tokens[t]) /\ leaving' \subseteq leaving
      /\ c \in DOMAIN rooms /\ Reaped[c] = rooms[c]
  BY ReapedPart DEF Resume, Part, Ind
<1>2. PICK r \in Role : /\ Proves(Reaped[c], t, r)
                         /\ rooms' = With(Reaped, c, Rotated(Reaped[c], r))
  BY DEF Resume
<1> QED  BY <1>1, <1>2, ProvesSeat, RotateInd

LEMMA ReconnectInd ==
    ASSUME NEW c \in Codes, NEW p \in Players, NEW g \in Games, Ind, Reconnect(c, p, g)
    PROVE  Ind'
<1>1. /\ c \in DOMAIN Reaped /\ IssueTo(p) /\ leaving' \subseteq leaving
      /\ c \in DOMAIN rooms /\ Reaped[c] = rooms[c] /\ DeviceId(p) # NoDevice
  BY ReapedPart DEF Reconnect, Part, Ind
<1>2. PICK r \in Role : /\ Reaped[c].device[r] = DeviceId(p)
                         /\ rooms' = With(Reaped, c, Rotated(Reaped[c], r))
  BY DEF Reconnect
<1>3. rooms[c].token[r] # NoToken /\ p = tokens[rooms[c].token[r]]
  BY <1>1, <1>2, DeviceOf
<1> QED  BY <1>1, <1>2, <1>3, RotateInd

LEMMA PublishInputInd ==
    ASSUME NEW c \in Codes, NEW t \in 1 .. Len(tokens), NEW s \in 1 .. MaxSeq, Ind,
           PublishInput(c, t, s)
    PROVE  Ind'
<1>1. /\ c \in DOMAIN Reaped /\ UNCHANGED tokens /\ leaving' \subseteq leaving
      /\ Part(Reaped) /\ c \in DOMAIN rooms /\ Reaped[c] = rooms[c]
      /\ Good(rooms[c], tokens)
  BY ReapedPart DEF PublishInput, Part, Ind
<1> DEFINE shot == [seq |-> s, by |-> tokens[t]]
           room(r) == [rooms[c] EXCEPT !.input[r] = shot]
<1>2. PICK r \in Role : Proves(rooms[c], t, r) /\ rooms' = With(Reaped, c, room(r))
  BY <1>1 DEF PublishInput
<1>3. tokens[t] \in Players /\ rooms[c].token[r] = t
  BY <1>1, <1>2, ProvesSeat
<1>4. shot \in Snapshot /\ shot.by = tokens[t] /\ s # 0
  BY <1>3, Bounds DEF Snapshot
<1>5. /\ rooms[c] \in Room /\ rooms[c].input \in [Role -> Snapshot] /\ t # NoToken
  BY <1>1, <1>2, Fields DEF Good, Proves
<1> HIDE DEF shot
<1>6. /\ room(r).input = [rooms[c].input EXCEPT ![r] = shot]
      /\ room(r).token = rooms[c].token /\ room(r).device = rooms[c].device
      /\ room(r).since = rooms[c].since
      /\ room(r) \in Room
  <2>1. [rooms[c].input EXCEPT ![r] = shot] \in [Role -> Snapshot]
    BY <1>4, <1>5
  <2> QED  BY <2>1, <1>5 DEF Room
<1>7. room(r).input[r] = shot /\ \A q \in Role \ {r} : room(r).input[q] = rooms[c].input[q]
  BY <1>5, <1>6
<1> HIDE DEF room
<1>8. Good(room(r), tokens')
  <2>1. \A q \in Role : GoodSeat(rooms[c], q, tokens)
    BY <1>1 DEF Good
  <2>2. \A q \in Role : GoodSeat(room(r), q, tokens)
    BY <2>1, <1>3, <1>4, <1>5, <1>6, <1>7 DEF GoodSeat
  <2> QED  BY <2>2, <1>1, <1>6 DEF Good
<1>10. \A q \in Role : Succeeds(room(r), c, q)
  BY <1>1, <1>6 DEF Succeeds
<1>9. \A d \in DOMAIN Reaped \ {c} :
          room(r).device["host"] # NoDevice => Reaped[d].device["host"] # room(r).device["host"]
  BY <1>1, <1>6 DEF Part, Ind, OneRoomPerHost
<1> QED  BY <1>1, <1>2, <1>8, <1>9, <1>10, Put

\* A token that proves a role now belongs to the present membership.
LEMMA LeaveProvesInd ==
    ASSUME NEW c \in Codes, NEW t \in 1 .. Len(tokens), Ind, LeaveProves(c, t)
    PROVE  Ind'
<1>1. PICK r \in Role : Proves(rooms[c], t, r) /\ leaving' = leaving \cup {<<c, r, t>>}
  BY DEF LeaveProves
<1>2. c \in DOMAIN rooms /\ UNCHANGED <<rooms, tokens>>
  BY DEF LeaveProves
<1>3. TypeOK'
  BY <1>1, <1>2 DEF Ind, TypeOK
<1>4. rooms[c].since[r] # NoToken => tokens[t] = tokens[rooms[c].since[r]]
  BY <1>1, <1>2 DEF Ind, Good, GoodSeat, Proves
<1>5. Pending'
  BY <1>1, <1>2, <1>4 DEF Ind, Pending
<1> QED  BY <1>2, <1>3, <1>5 DEF Ind, OneRoomPerHost

LEMMA LeaveEndsInd ==
    ASSUME NEW c \in Codes, NEW r \in Role, NEW t, Ind, LeaveEnds(c, r, t)
    PROVE  Ind'
<1>1. leaving' \subseteq leaving /\ UNCHANGED tokens
  BY DEF LeaveEnds
<1>2. Part(rooms)
  BY DEF Part, Ind, TypeOK
<1>3. CASE c \notin DOMAIN rooms
  BY <1>1, <1>2, <1>3, Keep DEF LeaveEnds
<1>4. CASE c \in DOMAIN rooms /\ r = "host"
  BY <1>1, <1>2, <1>4, WithoutPart, Keep DEF LeaveEnds
<1>5. CASE c \in DOMAIN rooms /\ r # "host"
  <2> DEFINE room == Vacated(rooms[c])
  <2>1. rooms' = With(rooms, c, room)
    BY <1>5 DEF LeaveEnds
  <2>2. /\ Good(room, tokens') /\ room.device["host"] = rooms[c].device["host"]
        /\ \A q \in Role : Succeeds(room, c, q)
    BY <1>1, <1>5, VacatedGood DEF Ind, Succeeds
  <2> HIDE DEF room
  <2>3. \A d \in DOMAIN rooms \ {c} :
            room.device["host"] # NoDevice => rooms[d].device["host"] # room.device["host"]
    BY <1>5, <2>2 DEF Ind, OneRoomPerHost
  <2> QED  BY <1>1, <1>2, <2>1, <2>2, <2>3, Put
<1> QED  BY <1>3, <1>4, <1>5

LEMMA NextInd == Ind /\ [Next]_vars => Ind'
<1> SUFFICES ASSUME Ind, [Next]_vars PROVE Ind'
  OBVIOUS
<1>1. CASE Tick \/ Refused
  BY <1>1, TickInd, RefusedInd
<1>2. CASE \E p \in Players, g \in Games : CreateRoom(p, g)
  BY <1>2, CreateRoomInd
<1>3. CASE \E p \in Players, g \in Games, c \in Codes : JoinRoom(c, p, g) \/ Reconnect(c, p, g)
  BY <1>3, JoinRoomInd, ReconnectInd
<1>4. CASE \E c \in Codes, t \in 1 .. Len(tokens) : Resume(c, t) \/ LeaveProves(c, t)
  BY <1>4, ResumeInd, LeaveProvesInd
<1>5. CASE \E c \in Codes, t \in 1 .. Len(tokens), s \in 1 .. MaxSeq : PublishInput(c, t, s)
  BY <1>5, PublishInputInd
<1>6. CASE \E c \in Codes : DropExpired(c)
  BY <1>6, DropExpiredInd
<1>7. CASE \E c \in Codes, t \in 1 .. Len(tokens), r \in Role : LeaveEnds(c, r, t)
  BY <1>7, LeaveEndsInd
<1>8. CASE UNCHANGED vars
  BY <1>8 DEF vars, Ind, TypeOK, Good, GoodSeat, OneRoomPerHost, Pending
<1> QED  BY <1>1, <1>2, <1>3, <1>4, <1>5, <1>6, <1>7, <1>8 DEF Next

THEOREM Invariance == Spec => []Ind
BY InitInd, NextInd, PTL DEF Spec

\* Every variable of the room service stays within its type.
THEOREM TypeCorrect == Spec => []TypeOK
<1>1. Ind => TypeOK
  BY DEF Ind
<1> QED  BY <1>1, Invariance, PTL

\* A device hosts one room at most.
THEOREM OneRoom == Spec => []OneRoomPerHost
<1>1. Ind => OneRoomPerHost
  BY DEF Ind
<1> QED  BY <1>1, Invariance, PTL

\* The valid token of a seat is held by the player the seat is registered to.
THEOREM SeatHolderHolds == Spec => []SeatHolder
<1>1. Ind => SeatHolder
  BY DEF Ind, Good, GoodSeat, SeatHolder
<1> QED  BY <1>1, Invariance, PTL

\* A checkpoint was published by the member who has the seat now.
THEOREM CheckpointOwnerHolds == Spec => []CheckpointOwner
<1>1. Ind => CheckpointOwner
  BY DEF Ind, Good, GoodSeat, CheckpointOwner
<1> QED  BY <1>1, Invariance, PTL
-----------------------------------------------------------------------------
(* SeatKept: what a step does to a seat that is taken *)

\* A seat whose token the step does not touch, tokens being issued or not.
LEMMA Untouched ==
    ASSUME Ind, NEW c \in Codes, NEW r \in Role, Taken(c, r),
           UNCHANGED tokens \/ \E p \in Players : IssueTo(p),
           c \in DOMAIN rooms', rooms'[c].token[r] = rooms[c].token[r]
    PROVE  Stays(c, r)
<1>1. /\ rooms[c].token[r] \in Nat /\ rooms[c].token[r] # 0
      /\ rooms[c].token[r] <= Len(tokens) /\ tokens \in Seq(Players)
  BY Fields DEF Taken, NoToken, Ind, TypeOK
<1>2. tokens'[rooms[c].token[r]] = tokens[rooms[c].token[r]]
  BY <1>1 DEF IssueTo
<1> QED  BY <1>2 DEF Stays, Taken, Member

\* A call that reaps, and puts one room back with the token of one seat
\* replaced: that seat was empty, or its member is the one who is answered.
LEMMA SeatsAfterPut ==
    ASSUME Ind, NEW c \in Codes, NEW r \in Role, Taken(c, r),
           UNCHANGED tokens \/ \E p \in Players : IssueTo(p),
           NEW d \in DOMAIN Reaped, NEW room, rooms' = With(Reaped, d, room),
           c = d => \/ room.token[r] = rooms[c].token[r]
                    \/ /\ room.token[r] = Fresh /\ Fresh \in DOMAIN tokens'
                       /\ tokens'[Fresh] = Member(c, r)
    PROVE  Stays(c, r)
<1>1. /\ \A e \in DOMAIN Reaped : Reaped[e] = rooms[e]
      /\ \A e \in DOMAIN rooms \ DOMAIN Reaped : rooms[e].age > TTL
  BY ReapedPart DEF Part
<1>2. /\ DOMAIN rooms' = DOMAIN Reaped \cup {d} /\ rooms'[d] = room
      /\ \A e \in DOMAIN Reaped \ {d} : rooms'[e] = Reaped[e]
  BY DEF With
<1>3. CASE c \notin DOMAIN Reaped
  BY <1>1, <1>3 DEF Stays, Taken
<1>4. CASE c \in DOMAIN Reaped /\ c # d
  BY <1>1, <1>2, <1>4, Untouched
<1>5. CASE c = d /\ room.token[r] = rooms[c].token[r]
  BY <1>2, <1>5, Untouched
<1>6. CASE c = d /\ room.token[r] # rooms[c].token[r]
  <2>1. /\ rooms'[c].token[r] = Fresh /\ c \in DOMAIN rooms'
        /\ tokens'[Fresh] = Member(c, r)
    BY <1>2, <1>6
  <2>2. Fresh # NoToken
    BY DEF Ind, TypeOK, Fresh, NoToken
  <2> QED  BY <2>1, <2>2 DEF Stays, Taken, Member
<1> QED  BY <1>3, <1>4, <1>5, <1>6

\* Rotated touches one seat.
LEMMA RotatedToken ==
    ASSUME NEW room \in Room, NEW q \in Role, NEW r \in Role
    PROVE  Rotated(room, q).token[r] = IF r = q THEN Fresh ELSE room.token[r]
BY Fields DEF Rotated, Room

LEMMA CreateRoomSeats ==
    ASSUME NEW p \in Players, NEW g \in Games, Ind, CreateRoom(p, g),
           NEW c \in Codes, NEW r \in Role, Taken(c, r)
    PROVE  Stays(c, r)
<1> DEFINE kept == Without(Reaped, Superseded(Reaped, DeviceId(p)))
           room == NewRoom(g, DeviceId(p), Fresh)
<1>1. PICK d \in Codes \ DOMAIN kept : rooms' = With(kept, d, room)
  BY DEF CreateRoom, FreeCodes
<1>2. IssueTo(p) /\ Len(tokens') = Fresh /\ tokens'[Fresh] = p
  BY Issued DEF CreateRoom
<1>3. /\ \A e \in DOMAIN Reaped : e \in DOMAIN rooms /\ Reaped[e] = rooms[e]
      /\ \A e \in DOMAIN rooms \ DOMAIN Reaped : rooms[e].age > TTL
      /\ DOMAIN kept = DOMAIN Reaped \ Superseded(Reaped, DeviceId(p))
      /\ Part(kept)
  BY ReapedPart, WithoutPart DEF Part
<1>4. CASE c \notin DOMAIN Reaped
  BY <1>3, <1>4 DEF Stays, Taken
<1>5. CASE c \in Superseded(Reaped, DeviceId(p))
  <2>1. rooms[c].device["host"] = DeviceId(p) /\ DeviceId(p) # NoDevice
    BY <1>3, <1>5 DEF Superseded
  <2>2. d \in DOMAIN rooms' /\ rooms'[d] = room
    BY <1>1 DEF With
  <2>3. room.token["host"] = Fresh /\ room.age = 0
    BY Bounds DEF NewRoom
  <2>4. Fresh <= Len(tokens')
    BY <1>2 DEF Ind, TypeOK, Fresh
  <2> QED  BY <1>2, <2>1, <2>2, <2>3, <2>4 DEF Stays, HostMoved
<1>6. CASE c \in DOMAIN kept
  <2>1. c \in DOMAIN rooms' /\ rooms'[c] = rooms[c]
    BY <1>1, <1>3, <1>6 DEF With, Part
  <2> QED  BY <1>2, <2>1, Untouched
<1> QED  BY <1>3, <1>4, <1>5, <1>6

LEMMA JoinRoomSeats ==
    ASSUME NEW d \in Codes, NEW p \in Players, NEW g \in Games, Ind, JoinRoom(d, p, g),
           NEW c \in Codes, NEW r \in Role, Taken(c, r)
    PROVE  Stays(c, r)
<1>1. /\ d \in DOMAIN Reaped /\ IssueTo(p) /\ Reaped[d] = rooms[d] /\ d \in DOMAIN rooms
      /\ rooms[d] \in Room /\ Good(rooms[d], tokens)
  BY ReapedPart DEF JoinRoom, Part, Ind, TypeOK
<1>2. tokens'[Fresh] = p /\ Fresh \in DOMAIN tokens'
  BY <1>1, Issued
<1>3. CASE ~Full(Reaped[d])
  <2> DEFINE room == [Rotated(Reaped[d], "guest") EXCEPT !.device["guest"] = DeviceId(p),
                                                         !.since["guest"] = Fresh]
  <2>1. rooms' = With(Reaped, d, room)
    BY <1>3 DEF JoinRoom
  <2>2. room.token = Rotated(rooms[d], "guest").token
    BY <1>1 DEF Rotated, Room
  <2> HIDE DEF room
  <2>3. c = d => r = "host" /\ room.token[r] = rooms[c].token[r]
    BY <1>1, <1>3, <2>2, Bounds, RotatedToken DEF Full, Taken, Role
  <2> QED  BY <1>1, <2>1, <2>3, SeatsAfterPut
<1>4. CASE Full(Reaped[d])
  <2> DEFINE room == Rotated(Reaped[d], "guest")
  <2>1. rooms' = With(Reaped, d, room) /\ SameDevice(Reaped[d], DeviceId(p))
    BY <1>4 DEF JoinRoom
  <2>2. c = d /\ r = "guest" => p = Member(c, r)
    <3>1. SUFFICES ASSUME c = d, r = "guest" PROVE p = Member(c, r)
      OBVIOUS
    <3>2. DeviceId(Member(c, r)) = DeviceId(p) /\ DeviceId(p) # NoDevice
      BY <1>1, <2>1, <3>1 DEF SameDevice, Good, GoodSeat, Taken, Member
    <3> QED  BY <3>2, Bounds DEF DeviceId
  <2>3. c = d => room.token[r] = IF r = "guest" THEN Fresh ELSE rooms[c].token[r]
    BY <1>1, Bounds, RotatedToken
  <2> HIDE DEF room
  <2> QED  BY <1>1, <1>2, <2>1, <2>2, <2>3, SeatsAfterPut
<1> QED  BY <1>3, <1>4

LEMMA ResumeSeats ==
    ASSUME NEW d \in Codes, NEW t \in 1 .. Len(tokens), Ind, Resume(d, t),
           NEW c \in Codes, NEW r \in Role, Taken(c, r)
    PROVE  Stays(c, r)
<1>1. /\ d \in DOMAIN Reaped /\ Reaped[d] = rooms[d] /\ d \in DOMAIN rooms
      /\ rooms[d] \in Room /\ IssueTo(tokens[t])
  BY ReapedPart DEF Resume, Part, Ind, TypeOK
<1>2. PICK q \in Role : /\ Proves(rooms[d], t, q)
                         /\ rooms' = With(Reaped, d, Rotated(rooms[d], q))
  BY <1>1 DEF Resume
<1>3. tokens[t] \in Players /\ (c = d /\ r = q => tokens[t] = Member(c, r))
  BY <1>1, <1>2, ProvesSeat DEF Member
<1>4. tokens'[Fresh] = tokens[t] /\ Fresh \in DOMAIN tokens'
  BY <1>1, <1>3, Issued
<1>5. c = d => Rotated(rooms[d], q).token[r] = IF r = q THEN Fresh ELSE rooms[c].token[r]
  BY <1>1, RotatedToken
<1> QED  BY <1>1, <1>2, <1>3, <1>4, <1>5, SeatsAfterPut

LEMMA ReconnectSeats ==
    ASSUME NEW d \in Codes, NEW p \in Players, NEW g \in Games, Ind, Reconnect(d, p, g),
           NEW c \in Codes, NEW r \in Role, Taken(c, r)
    PROVE  Stays(c, r)
<1>1. /\ d \in DOMAIN Reaped /\ Reaped[d] = rooms[d] /\ d \in DOMAIN rooms
      /\ rooms[d] \in Room /\ Good(rooms[d], tokens) /\ IssueTo(p) /\ DeviceId(p) # NoDevice
  BY ReapedPart DEF Reconnect, Part, Ind, TypeOK
<1>2. PICK q \in Role : /\ rooms[d].device[q] = DeviceId(p)
                         /\ rooms' = With(Reaped, d, Rotated(rooms[d], q))
  BY <1>1 DEF Reconnect
<1>3. c = d /\ r = q => p = Member(c, r)
  <2>1. SUFFICES ASSUME c = d, r = q PROVE p = Member(c, r)
    OBVIOUS
  <2>2. DeviceId(Member(c, r)) = DeviceId(p)
    BY <1>1, <1>2, <2>1 DEF Good, GoodSeat, Taken, Member
  <2> QED  BY <1>1, <2>2, Bounds DEF DeviceId
<1>4. tokens'[Fresh] = p /\ Fresh \in DOMAIN tokens'
  BY <1>1, Issued
<1>5. c = d => Rotated(rooms[d], q).token[r] = IF r = q THEN Fresh ELSE rooms[c].token[r]
  BY <1>1, RotatedToken
<1> QED  BY <1>1, <1>2, <1>3, <1>4, <1>5, SeatsAfterPut

LEMMA PublishInputSeats ==
    ASSUME NEW d \in Codes, NEW t \in 1 .. Len(tokens), NEW s \in 1 .. MaxSeq, Ind,
           PublishInput(d, t, s), NEW c \in Codes, NEW r \in Role, Taken(c, r)
    PROVE  Stays(c, r)
<1>1. d \in DOMAIN Reaped /\ Reaped[d] = rooms[d] /\ rooms[d] \in Room /\ UNCHANGED tokens
  BY ReapedPart DEF PublishInput, Part, Ind, TypeOK
<1> DEFINE room(q) == [rooms[d] EXCEPT !.input[q] = [seq |-> s, by |-> tokens[t]]]
<1>2. PICK q \in Role : rooms' = With(Reaped, d, room(q))
  BY <1>1 DEF PublishInput
<1>3. room(q).token = rooms[d].token
  BY <1>1 DEF Room
<1> HIDE DEF room
<1> QED  BY <1>1, <1>2, <1>3, SeatsAfterPut

\* A step may take a seat.
KeepsSeat(c, r) ==
    \/ Stays(c, r)
    \/ \E q \in {r, "host"}, t \in 1 .. Len(tokens) :
         LeaveEnds(c, q, t) /\ (Own(c, q, t) \/ Late(c, q, t))

\* A leave that is not the member's own is of an earlier one.
LEMMA OwnOrLate ==
    ASSUME Ind, NEW c \in DOMAIN rooms, NEW q \in Role, NEW t \in 1 .. Len(tokens),
           rooms[c].token[q] # NoToken, <<c, q, t>> \in leaving
    PROVE  Own(c, q, t) \/ Late(c, q, t)
<1>1. rooms[c] \in Room /\ GoodSeat(rooms[c], q, tokens)
  BY DEF Ind, Good
<1>2. rooms[c].since[q] \in Nat /\ rooms[c].since[q] # NoToken
  BY <1>1, Fields DEF GoodSeat, NoToken
<1>3. t >= rooms[c].since[q] => tokens[t] = tokens[rooms[c].since[q]]
  BY <1>2 DEF Ind, Pending
<1> QED  BY <1>1, <1>2, <1>3 DEF Own, Late, Member, GoodSeat

LEMMA LeaveEndsSeats ==
    ASSUME NEW d \in Codes, NEW q \in Role, NEW t \in 1 .. Len(tokens), Ind,
           LeaveEnds(d, q, t), NEW c \in Codes, NEW r \in Role, Taken(c, r)
    PROVE  KeepsSeat(c, r)
<1>1. <<d, q, t>> \in leaving /\ UNCHANGED tokens /\ c \in DOMAIN rooms
  BY DEF LeaveEnds, Taken
<1>2. CASE c = d /\ q \in {r, "host"}
  <2>1. rooms[c].token[q] # NoToken
    BY <1>1, <1>2 DEF Taken, Ind, Good
  <2> QED  BY <1>1, <1>2, <2>1, OwnOrLate DEF KeepsSeat
<1>3. CASE c = d /\ r = "host" /\ q = "guest"
  <2>1. rooms' = With(rooms, d, Vacated(rooms[d])) /\ rooms[d] \in Room
    BY <1>3 DEF LeaveEnds, Taken, Ind, TypeOK
  <2>2. Vacated(rooms[d]).token["host"] = rooms[d].token["host"]
    BY <2>1, Bounds, Fields DEF Vacated, Room
  <2>3. c \in DOMAIN rooms' /\ rooms'[c].token[r] = rooms[c].token[r]
    BY <1>3, <2>1, <2>2 DEF With
  <2> QED  BY <1>1, <2>3, Untouched DEF KeepsSeat
<1>4. CASE c # d
  <2>1. c \in DOMAIN rooms' /\ rooms'[c] = rooms[c]
    BY <1>4 DEF LeaveEnds, Taken, With, Without, Restrict
  <2> QED  BY <1>1, <2>1, Untouched DEF KeepsSeat
<1> QED  BY <1>2, <1>3, <1>4 DEF Role

\* The steps that only reap, drop an expired room, or touch no seat.
LEMMA OtherSeats ==
    ASSUME Ind, Tick \/ Refused \/ (\E d \in Codes : DropExpired(d))
                \/ (\E d \in Codes, t \in 1 .. Len(tokens) : LeaveProves(d, t)),
           NEW c \in Codes, NEW r \in Role, Taken(c, r)
    PROVE  Stays(c, r)
<1>1. UNCHANGED tokens
  BY DEF Tick, Refused, DropExpired, LeaveProves
<1>2. c \in DOMAIN rooms /\ rooms[c] \in Room
  BY DEF Taken, Ind, TypeOK
<1>3. \/ rooms[c].age > TTL
      \/ c \in DOMAIN rooms' /\ rooms'[c].token[r] = rooms[c].token[r]
  <2>1. CASE Tick
    BY <2>1, <1>2 DEF Tick, Room
  <2>2. CASE Refused
    BY <2>2, <1>2, ReapedPart DEF Refused, Part
  <2>3. CASE \E d \in Codes : DropExpired(d)
    BY <2>3, <1>2 DEF DropExpired, IsExpired, Without, Restrict
  <2>4. CASE \E d \in Codes, t \in 1 .. Len(tokens) : LeaveProves(d, t)
    BY <2>4, <1>2 DEF LeaveProves
  <2> QED  BY <2>1, <2>2, <2>3, <2>4
<1> QED  BY <1>1, <1>3, Untouched DEF Stays

LEMMA StepKeepsSeats ==
    ASSUME Ind, Next, NEW c \in Codes, NEW r \in Role, Taken(c, r)
    PROVE  KeepsSeat(c, r)
<1>1. CASE Tick \/ Refused
  BY <1>1, OtherSeats DEF KeepsSeat
<1>2. CASE \E p \in Players, g \in Games : CreateRoom(p, g)
  BY <1>2, CreateRoomSeats DEF KeepsSeat
<1>3. CASE \E p \in Players, g \in Games, d \in Codes : JoinRoom(d, p, g) \/ Reconnect(d, p, g)
  BY <1>3, JoinRoomSeats, ReconnectSeats DEF KeepsSeat
<1>4. CASE \E d \in Codes, t \in 1 .. Len(tokens) : Resume(d, t)
  BY <1>4, ResumeSeats DEF KeepsSeat
<1>5. CASE \E d \in Codes, t \in 1 .. Len(tokens) : LeaveProves(d, t)
  BY <1>5, OtherSeats DEF KeepsSeat
<1>6. CASE \E d \in Codes, t \in 1 .. Len(tokens), s \in 1 .. MaxSeq : PublishInput(d, t, s)
  BY <1>6, PublishInputSeats DEF KeepsSeat
<1>7. CASE \E d \in Codes : DropExpired(d)
  BY <1>7, OtherSeats DEF KeepsSeat
<1>8. CASE \E d \in Codes, t \in 1 .. Len(tokens), q \in Role : LeaveEnds(d, q, t)
  BY <1>8, LeaveEndsSeats
<1> QED  BY <1>1, <1>2, <1>3, <1>4, <1>5, <1>6, <1>7, <1>8 DEF Next

\* Nobody loses a seat to another player, but by the time, a leave of its member
\* or of the host, the host's new room, or a late leave of an earlier holder.
THEOREM SeatKeptHolds == Spec => SeatKept
<1>1. Ind /\ [Next]_vars =>
        [\A c \in Codes, r \in Role : Taken(c, r) =>
           \/ Stays(c, r)
           \/ \E q \in {r, "host"}, t \in 1 .. Len(tokens) :
                LeaveEnds(c, q, t) /\ (Own(c, q, t) \/ Late(c, q, t))]_vars
  BY StepKeepsSeats DEF KeepsSeat
<1> QED  BY Invariance, <1>1, PTL DEF Spec, SeatKept
=============================================================================
