----------------------------- MODULE RoomService -----------------------------
(***************************************************************************)
(* RoomService, the rooms two players of the web player meet in: a host     *)
(* creates a room, a guest joins it by its code, members prove themselves   *)
(* with tokens that are replaced on every resume, and a room dies with its  *)
(* host, with its time, or when its host opens another one.                 *)
(*                                                                          *)
(* Every operation runs under one lock and is one action.  Requests may be  *)
(* late, lost or repeated: any token ever issued may be presented at any    *)
(* time, and the reply to any request may never be seen.  The handler of a  *)
(* leave takes the lock twice, and anything may happen in between.          *)
(***************************************************************************)
EXTENDS Naturals, Sequences, Functions

CONSTANTS
    Codes,      \* the codes _new_code can draw
    Games,      \* GameSignature, compatible when equal
    Players,    \* browsers
    Anonymous,  \* those that send no device id
    NoDevice,   \* the empty device id
    TTL,        \* room_ttl_seconds
    MaxTokens,  \* bound: tokens issued
    MaxSeq      \* bound: sequence of an input frame

ASSUME PlayersAssumption == Anonymous \subseteq Players /\ NoDevice \notin Players
ASSUME BoundsAssumption ==
    /\ TTL \in Nat /\ MaxTokens \in Nat /\ MaxSeq \in Nat

VARIABLES
    rooms,    \* self.rooms: code -> Room
    tokens,   \* whom each token was issued to
    leaving   \* <<code, role, token>>: that token has proved that role to a leave
              \* handler, or to several, that have yet to leave

vars == <<rooms, tokens, leaving>>

Role     == {"host", "guest"}
Devices  == (Players \ Anonymous) \cup {NoDevice}
DeviceId(p) == IF p \in Anonymous THEN NoDevice ELSE p
NoToken  == 0
MaxAge   == TTL + 1

\* An input snapshot: its sequence, 0 for none, and who published it.
Snapshot == [seq : 0 .. MaxSeq, by : Players \cup {NoDevice}]
NoInput  == [seq |-> 0, by |-> NoDevice]

\* age counts the time since created_at, up to the first value past the TTL.
\* since is history, for the properties only: the first token of the member
\* who has the seat.
Room == [ game   : Games,
          age    : 0 .. MaxAge,
          device : [Role -> Devices],
          token  : [Role -> 0 .. MaxTokens],
          since  : [Role -> 0 .. MaxTokens],
          input  : [Role -> Snapshot] ]

\* Types; a token that is valid somewhere has been issued.
TypeOK ==
    /\ DOMAIN rooms \subseteq Codes
    /\ rooms = [c \in DOMAIN rooms |-> rooms[c]]
    /\ \A c \in DOMAIN rooms : rooms[c] \in Room
    /\ tokens \in Seq(Players) /\ Len(tokens) <= MaxTokens
    /\ \A c \in DOMAIN rooms, r \in Role : rooms[c].token[r] <= Len(tokens)
    /\ leaving \subseteq Codes \X Role \X (1 .. Len(tokens))

Init ==
    /\ rooms = [c \in {} |-> {}]
    /\ tokens = <<>>
    /\ leaving = {}
-----------------------------------------------------------------------------
(* The parts operations are made of *)

Fresh == Len(tokens) + 1
IssueTo(p) == Len(tokens) < MaxTokens /\ tokens' = Append(tokens, p)

IsExpired(room) == room.age > TTL

\* reap(); every call but authenticate and leave begins with it.
Reaped == Restrict(rooms, {c \in DOMAIN rooms : ~IsExpired(rooms[c])})

With(rs, c, room) == [d \in DOMAIN rs \cup {c} |-> IF d = c THEN room ELSE rs[d]]
Without(rs, cs) == Restrict(rs, DOMAIN rs \ cs)

\* Mutant of Superseded: the previous rooms stay.
SupersededNone(rs, d) == {}
\* _supersede_host_rooms
Superseded(rs, d) ==
    {c \in DOMAIN rs : d # NoDevice /\ rs[c].device["host"] = d}

NewRoom(g, d, t) ==
    [ game   |-> g,
      age    |-> 0,
      device |-> [r \in Role |-> IF r = "host" THEN d ELSE NoDevice],
      token  |-> [r \in Role |-> IF r = "host" THEN t ELSE NoToken],
      since  |-> [r \in Role |-> IF r = "host" THEN t ELSE NoToken],
      input  |-> [r \in Role |-> NoInput] ]

\* The codes _new_code may return.
FreeCodes(rs) == Codes \ DOMAIN rs

Full(room) == room.token["guest"] # NoToken
Rotated(room, r) == [room EXCEPT !.token[r] = Fresh]

\* The role a token proves in a room.
Proves(room, t, r) == t # NoToken /\ room.token[r] = t
-----------------------------------------------------------------------------
Tick ==
    /\ rooms' = [c \in DOMAIN rooms |->
            [rooms[c] EXCEPT !.age = IF @ < MaxAge THEN @ + 1 ELSE @]]
    /\ UNCHANGED <<tokens, leaving>>

\* A call that begins with reap() and is refused, or only reads.
Refused ==
    /\ rooms' = Reaped
    /\ UNCHANGED <<tokens, leaving>>

\* create_room.  It draws codes until one is free; when none is, the host had
\* no room to supersede, and the call is a Refused one.
CreateRoom(p, g) ==
    LET kept == Without(Reaped, Superseded(Reaped, DeviceId(p))) IN
    /\ \E c \in FreeCodes(kept) :
           rooms' = With(kept, c, NewRoom(g, DeviceId(p), Fresh))
    /\ IssueTo(p)
    /\ UNCHANGED leaving

\* Mutants of SameDevice: any device; also one without an id.
AnyDevice(room, d) == TRUE
AnonymousToo(room, d) == room.device["guest"] = d
SameDevice(room, d) == d # NoDevice /\ room.device["guest"] = d

\* join_room: the first guest, or the same device again, whose game is not
\* compared and whose input stays.
JoinRoom(c, p, g) ==
    /\ c \in DOMAIN Reaped
    /\ LET room == Reaped[c] IN
       \/ /\ ~Full(room) /\ g = room.game
          /\ rooms' = With(Reaped, c,
                 [Rotated(room, "guest") EXCEPT !.device["guest"] = DeviceId(p),
                                                !.since["guest"] = Fresh])
       \/ /\ Full(room) /\ SameDevice(room, DeviceId(p))
          /\ rooms' = With(Reaped, c, Rotated(room, "guest"))
    /\ IssueTo(p)
    /\ UNCHANGED leaving

\* resume: the holder of a valid token gets another one.
Resume(c, t) ==
    /\ c \in DOMAIN Reaped
    /\ \E r \in Role :
           /\ Proves(Reaped[c], t, r)
           /\ rooms' = With(Reaped, c, Rotated(Reaped[c], r))
    /\ IssueTo(tokens[t])
    /\ UNCHANGED leaving

\* reconnect: a device that is in the room gets a token, the host's first.
Reconnect(c, p, g) ==
    /\ c \in DOMAIN Reaped /\ DeviceId(p) # NoDevice
    /\ g = Reaped[c].game
    /\ \E r \in Role :
           /\ Reaped[c].device[r] = DeviceId(p)
           /\ r = "guest" => Reaped[c].device["host"] # DeviceId(p)
           /\ rooms' = With(Reaped, c, Rotated(Reaped[c], r))
    /\ IssueTo(p)
    /\ UNCHANGED leaving

Newer(room, r, s) == s > room.input[r].seq

\* publish_input: the frame replaces an older one of the same member.
PublishInput(c, t, s) ==
    /\ c \in DOMAIN Reaped
    /\ \E r \in Role :
           /\ Proves(Reaped[c], t, r)
           /\ Newer(Reaped[c], r, s)
           /\ rooms' = With(Reaped, c,
                 [Reaped[c] EXCEPT !.input[r] = [seq |-> s, by |-> tokens[t]]])
    /\ UNCHANGED <<tokens, leaving>>

\* authenticate finds the one room it was asked for expired, and drops it.
DropExpired(c) ==
    /\ c \in DOMAIN rooms /\ IsExpired(rooms[c])
    /\ rooms' = Without(rooms, {c})
    /\ UNCHANGED <<tokens, leaving>>

\* The leave handler: authenticate ...
LeaveProves(c, t) ==
    /\ c \in DOMAIN rooms /\ ~IsExpired(rooms[c])
    /\ \E r \in Role :
           /\ Proves(rooms[c], t, r)
           /\ leaving' = leaving \cup {<<c, r, t>>}
    /\ UNCHANGED <<rooms, tokens>>

\* Mutant of Vacated: the guest's input stays behind.
VacatedWithInput(room) ==
    [room EXCEPT !.device["guest"] = NoDevice, !.token["guest"] = NoToken,
                 !.since["guest"] = NoToken]
Vacated(room) ==
    [room EXCEPT !.device["guest"] = NoDevice, !.token["guest"] = NoToken,
                 !.since["guest"] = NoToken, !.input["guest"] = NoInput]

\* ... and leave, with the role of then and the room of now.  Another handler
\* of the same request may still be on its way.
LeaveEnds(c, r, t) ==
    /\ <<c, r, t>> \in leaving
    /\ leaving' \in {leaving, leaving \ {<<c, r, t>>}}
    /\ rooms' = IF c \notin DOMAIN rooms THEN rooms
                ELSE IF r = "host" THEN Without(rooms, {c})
                ELSE With(rooms, c, Vacated(rooms[c]))
    /\ UNCHANGED tokens

Next ==
    \/ Tick \/ Refused
    \/ \E p \in Players, g \in Games :
           \/ CreateRoom(p, g)
           \/ \E c \in Codes : JoinRoom(c, p, g) \/ Reconnect(c, p, g)
    \/ \E c \in Codes, t \in 1 .. Len(tokens) :
           \/ Resume(c, t) \/ LeaveProves(c, t)
           \/ \E r \in Role : LeaveEnds(c, r, t)
           \/ \E s \in 1 .. MaxSeq : PublishInput(c, t, s)
    \/ \E c \in Codes : DropExpired(c)

Spec == Init /\ [][Next]_vars
-----------------------------------------------------------------------------
(* Properties *)

\* A device hosts one room at most (_supersede_host_rooms), whatever rooms
\* have expired, been joined or been left in between.
OneRoomPerHost ==
    \A c, d \in DOMAIN rooms :
        /\ rooms[c].device["host"] = rooms[d].device["host"]
        /\ rooms[c].device["host"] # NoDevice
        => c = d

\* The valid token of a seat is in the hands of the browser the seat is
\* registered to, through every rejoin, resume and reconnect.
SeatHolder ==
    \A c \in DOMAIN rooms, r \in Role :
        rooms[c].token[r] # NoToken =>
            DeviceId(tokens[rooms[c].token[r]]) = rooms[c].device[r]

\* The input a peer reads as a member's checkpoint was published by the member
\* who has that seat now, never by one who had it before.
CheckpointOwner ==
    \A c \in DOMAIN rooms, r \in Role :
        rooms[c].input[r].seq # 0 =>
            /\ rooms[c].token[r] # NoToken
            /\ rooms[c].input[r].by = tokens[rooms[c].token[r]]

\* The browser in a seat of a room, if any.
Member(c, r) == tokens[rooms[c].token[r]]
Taken(c, r) == c \in DOMAIN rooms /\ rooms[c].token[r] # NoToken

\* The leave of a token is the member's own; or it is late: the token is older
\* than the member's first, so the seat changed hands after it was proved.
Own(c, q, t) == t >= rooms[c].since[q] /\ tokens[t] = Member(c, q)
Late(c, q, t) == t < rooms[c].since[q]

\* The host of room c has just been issued a token for a new room.
HostMoved(c) ==
    /\ Fresh <= Len(tokens')
    /\ rooms[c].device["host"] # NoDevice
    /\ DeviceId(tokens'[Fresh]) = rooms[c].device["host"]
    /\ \E d \in DOMAIN rooms' : rooms'[d].token["host"] = Fresh /\ rooms'[d].age = 0

\* A seat stays with its member, or its time is up, or the host has moved.
Stays(c, r) ==
    \/ Taken(c, r)' /\ Member(c, r)' = Member(c, r)
    \/ rooms[c].age > TTL
    \/ HostMoved(c)

\* Nobody loses a seat to another player: it goes when the room's time is up,
\* when a leave of its member or of the host is carried out, or when the host
\* opens another room.  Excepted are late leaves: of an earlier holder of the
\* seat, or host of the code, proved before the present one came.
SeatKept ==
    [][\A c \in Codes, r \in Role : Taken(c, r) =>
         \/ Stays(c, r)
         \/ \E q \in {r, "host"}, t \in 1 .. Len(tokens) :
              LeaveEnds(c, q, t) /\ (Own(c, q, t) \/ Late(c, q, t))]_vars

\* Refuted by the code, RoomService_leave.cfg: a guest is put out by its own
\* leave only.  A leave authenticates a token and then leaves by role: the
\* second of two of an earlier guest's puts out the one who has come since.
NoLateLeave ==
    [][\A c \in Codes, t \in 1 .. Len(tokens) :
         LeaveEnds(c, "guest", t) /\ Taken(c, "guest") => Own(c, "guest", t)]_vars
=============================================================================
