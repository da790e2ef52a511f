------------------------------ MODULE RoomPages ------------------------------
(***************************************************************************)
(* A browser tab's membership of multiplayer rooms: the rooms page          *)
(* (multiplayer.js) and the panel of the player page, which keep the token  *)
(* of the current room in memory and in sessionStorage, create, join,       *)
(* resume and leave by requests to the server, and survive a stay in the    *)
(* back/forward cache.  Of the server (RoomService) this module keeps the   *)
(* seats of this browser.  Several requests may be under way at once, their *)
(* replies come in any order or never, and the tab may be closed, evicted   *)
(* from the cache or crash at any step.                                     *)
(***************************************************************************)
EXTENDS Naturals, Sequences

CONSTANTS
    Slots,      \* bound: requests with a reply to wait for, at once
    MaxTokens,  \* bound: tokens issued to this browser
    MaxFriends  \* bound: rooms of other browsers

ASSUME BoundsAssumption ==
    /\ Slots \subseteq Nat /\ MaxTokens \in Nat \ {0}
    /\ MaxFriends \in Nat

VARIABLES
    kind,     \* which page: lobby or player
    page,     \* closed, open, frozen (in the back/forward cache)
    room,     \* the token of room/mpRoom, 0 for none
    store,    \* the token in sessionStorage, 0 for none
    timer,    \* lobby: the token the interval polls with, 0 for none
    poll,     \* lobby: the token of the poll in flight, 0 for none
    ask, at,  \* slot -> what its request asks, and where it is
    target,   \* slot -> the code it asks to join, 0 for none
    with, got,  \* slot -> the token it was sent with, the token of its answer
    leaves,   \* the tokens of leave requests in flight
    issued,   \* token -> its seat: the code of its room, and the role
    seats,    \* the server's valid tokens of this browser
    given,    \* history: seats the tab gave up for another room, not leaving
    excused   \* history: the tab has lost track of a seat in a known way

polling == <<timer, poll>>
server == <<issued, seats>>
tab == <<kind, page>>
call == <<ask, at, target, with, got>>
vars == <<tab, room, store, polling, call, leaves, server, given, excused>>

Tokens == 1 .. MaxTokens
NoToken == 0
Token == Tokens \cup {NoToken}

\* A room of this browser has the number of its first token for its code.
Own == 1 .. MaxTokens
Friends == MaxTokens + 1 .. MaxTokens + MaxFriends
Codes == 1 .. MaxTokens + MaxFriends
NoCode == 0
Seat == Codes \X {"host", "guest"}

TypeOK ==
    /\ kind \in {"lobby", "player"} /\ page \in {"closed", "open", "frozen"}
    /\ room \in Token /\ store \in Token /\ timer \in Token /\ poll \in Token
    /\ ask \in [Slots -> {"none", "create", "join", "resume"}]
    /\ at \in [Slots -> {"idle", "sent", "answered", "refused", "lost", "orphan"}]
    /\ target \in [Slots -> Codes \cup {NoCode}]
    /\ with \in [Slots -> Token] /\ got \in [Slots -> Token]
    /\ issued \in Seq(Seat) /\ Len(issued) <= MaxTokens
    /\ seats \subseteq 1 .. Len(issued) /\ leaves \subseteq 1 .. Len(issued)
    /\ given \subseteq Seat /\ excused \in BOOLEAN

Init ==
    /\ kind \in {"lobby", "player"} /\ page = "closed"
    /\ room = NoToken /\ store = NoToken /\ timer = NoToken /\ poll = NoToken
    /\ ask = [s \in Slots |-> "none"] /\ at = [s \in Slots |-> "idle"]
    /\ target = [s \in Slots |-> NoCode]
    /\ with = [s \in Slots |-> NoToken] /\ got = [s \in Slots |-> NoToken]
    /\ leaves = {} /\ issued = <<>> /\ seats = {}
    /\ given = {} /\ excused = FALSE

InFlight(s) == ask[s] # "none"
Busy == \E s \in Slots : InFlight(s)
Code(t) == issued[t][1]
Hosts(t) == issued[t][2] = "host"
Excuse(why) == excused' = (excused \/ why)
-----------------------------------------------------------------------------
(* Requests *)

Send(s, op, code, token) ==
    /\ ~InFlight(s) /\ \A r \in Slots : r < s => InFlight(r)
    /\ ask' = [ask EXCEPT ![s] = op] /\ at' = [at EXCEPT ![s] = "sent"]
    /\ target' = [target EXCEPT ![s] = code] /\ with' = [with EXCEPT ![s] = token]
    /\ UNCHANGED got

Forget(s) ==
    /\ ask' = [ask EXCEPT ![s] = "none"] /\ at' = [at EXCEPT ![s] = "idle"]
    /\ target' = [target EXCEPT ![s] = NoCode]
    /\ with' = [with EXCEPT ![s] = NoToken] /\ got' = [got EXCEPT ![s] = NoToken]

\* The create and the join button; neither is disabled while a request runs,
\* and neither leaves the room that the tab has.  The guard on the tokens is the
\* bound on them.
Click(s, op, code) ==
    /\ page = "open" /\ Len(issued) < MaxTokens /\ Send(s, op, code, NoToken)
    /\ Excuse(Busy)
    /\ UNCHANGED <<tab, room, store, polling, leaves, server, given>>

Create(s) == Click(s, "create", NoCode)

\* The code is a friend's, or one of this browser's own rooms, which the
\* player's panel fills in.
Join(s, code) ==
    /\ code \in Friends \/ (code <= Len(issued) /\ issued[code] = <<code, "host">>)
    /\ Click(s, "join", code)

\* resumeRoom, mpResume: nothing is sent when nothing is stored.
Resume ==
    IF store = NoToken THEN UNCHANGED <<call, excused>>
    ELSE /\ \E s \in Slots : Send(s, "resume", NoCode, store)
         /\ Excuse(\E s \in Slots : ask[s] \in {"create", "join"})

\* The player's panel is opened.
OpenPanel ==
    /\ kind = "player" /\ page = "open" /\ store # NoToken
    /\ Resume
    /\ UNCHANGED <<tab, room, store, polling, leaves, server, given>>

\* The seat that a request asks for.
SeatFor(s) == CASE ask[s] = "create" -> <<Len(issued) + 1, "host">>
                [] ask[s] = "join" -> <<target[s], "guest">>
                [] OTHER -> issued[with[s]]

\* What a request makes of the seats: a new host's room supersedes its rooms,
\* joining the same room again or resuming replaces the token of that seat.
\* A seat in any other room stays.
Replaced(s) == {t \in seats : \/ issued[t] = SeatFor(s)
                              \/ ask[s] = "create" /\ Code(t) \in Own}

Granted(s) ==
    /\ Len(issued) < MaxTokens
    /\ ask[s] = "resume" => with[s] \in seats
    /\ ask[s] = "join" /\ target[s] \in Own =>
           \E t \in seats : issued[t] = <<target[s], "host">>
    /\ issued' = Append(issued, SeatFor(s))
    /\ seats' = (seats \ Replaced(s)) \cup {Len(issued) + 1}
    /\ given' = given \ {SeatFor(s)}

\* A request goes from one place to another.
Goes(s, from, to) ==
    /\ at[s] = from /\ at' = [at EXCEPT ![s] = to]
    /\ UNCHANGED <<tab, room, store, polling, ask, target, with, leaves>>

\* The server carries a request out, and answers with the token ...
Serve(s) ==
    /\ Goes(s, "sent", "answered") /\ Granted(s)
    /\ got' = [got EXCEPT ![s] = Len(issued) + 1]
    /\ UNCHANGED excused

\* ... or refuses it: a limit, another game, no such room; a dead token.
Refuse(s) ==
    /\ Goes(s, "sent", "refused")
    /\ ask[s] = "resume" => with[s] \notin seats
    /\ UNCHANGED <<got, server, given, excused>>

\* The request or its answer is lost.
Lose(s) ==
    /\ Goes(s, "sent", "lost") \/ Goes(s, "answered", "lost")
    /\ Excuse(TRUE)
    /\ UNCHANGED <<got, server, given>>

\* A request of a page that is gone may still reach the server.
ServeOrphan(s) ==
    /\ at[s] = "orphan" /\ Forget(s)
    /\ Granted(s) \/ UNCHANGED <<server, given>>
    /\ UNCHANGED <<tab, room, store, polling, leaves, excused>>
-----------------------------------------------------------------------------
(* Replies *)

\* Mutant of Stored: only the room in memory is brought up to date.
StoredNot(t) == store
\* storeRoom, mpStore
Stored(t) == t

\* showRoomBox, mpShowRoom; in the lobby a host begins to wait, and the
\* interval of an earlier room goes on when the reply made it a guest.
ShowRoom(s) ==
    /\ room' = got[s] /\ store' = Stored(got[s])
    /\ timer' = IF kind = "lobby" /\ Hosts(got[s]) THEN got[s] ELSE timer

\* A token of another seat, which the request for the new one did not replace.
Another(t, new) == issued[t] # issued[new] /\ ~(Hosts(new) /\ Code(t) \in Own)

\* The room of before is forgotten, and not left.
Accepted(s) ==
    /\ page = "open" /\ at[s] = "answered" /\ Forget(s)
    /\ ShowRoom(s)
    /\ LET left == {t \in {room, store} \cap seats : Another(t, got[s])} IN
       given' = given \cup {issued[t] : t \in left}
    /\ UNCHANGED <<tab, poll, leaves, server, excused>>

\* The player's panel keeps what is stored when no answer came.
Clears(s) == ask[s] = "resume" /\ (kind = "lobby" \/ at[s] = "refused")

Failed(s) ==
    /\ page = "open" /\ at[s] \in {"refused", "lost"} /\ Forget(s)
    /\ store' = IF Clears(s) THEN NoToken ELSE store
    /\ Excuse(Clears(s) /\ room \in seats)
    /\ UNCHANGED <<tab, room, polling, leaves, server, given>>
-----------------------------------------------------------------------------
(* Waiting for a player *)

\* The interval of waitForPlayer fires.
Poll ==
    /\ page = "open" /\ timer # NoToken /\ poll = NoToken
    /\ poll' = timer
    /\ UNCHANGED <<tab, room, store, timer, call, leaves, server, given, excused>>

Polled == page = "open" /\ poll # NoToken /\ poll' = NoToken

\* Mutant of Stopped: the interval is left to run.
StoppedNot == timer
\* stopWait
Stopped == NoToken

\* The answer says that the token is of no room.
PollGone ==
    /\ Polled /\ poll \notin seats
    /\ timer' = Stopped /\ store' = NoToken
    /\ Excuse(room \in seats)
    /\ UNCHANGED <<tab, room, call, leaves, server, given>>

\* The answer says that the room is full.
PollFull ==
    /\ Polled /\ timer' = Stopped
    /\ UNCHANGED <<tab, room, store, call, leaves, server, given, excused>>

\* It says that the room waits, or there is none.
PollWaits ==
    /\ Polled
    /\ UNCHANGED <<tab, room, store, timer, call, leaves, server, given, excused>>
-----------------------------------------------------------------------------
(* Leaving *)

\* Mutant of LeaveSent: leaving is only local.
LeaveSentNot == leaves
LeaveSent == leaves \cup ({room} \ {NoToken})

\* leaveRoom, mpAn3Leave: nothing is sent for a room that only the store has.
LeaveRoom ==
    /\ timer' = NoToken /\ room' = NoToken /\ store' = NoToken
    /\ leaves' = LeaveSent

\* The cancel and leave buttons, and closing the panel.
Leave ==
    /\ page = "open" /\ LeaveRoom
    /\ Excuse(room = NoToken /\ store # NoToken /\ \A s \in Slots : with[s] # store)
    /\ UNCHANGED <<tab, poll, call, server, given>>

\* A host's leave, the room's time or its host close a room.
Closed(code) == {t \in seats : Code(t) = code}

ServeLeave(t) ==
    /\ t \in leaves /\ leaves' = leaves \ {t}
    /\ seats' = seats \ (IF t \in seats /\ Hosts(t) THEN Closed(Code(t)) ELSE {t})
    /\ UNCHANGED <<tab, room, store, polling, call, issued, given, excused>>

LoseLeave(t) ==
    /\ t \in leaves /\ leaves' = leaves \ {t}
    /\ Excuse(TRUE)
    /\ UNCHANGED <<tab, room, store, polling, call, server, given>>

\* A room expires, or its host closes it.
RoomEnds(code) ==
    /\ Closed(code) # {} /\ seats' = seats \ Closed(code)
    /\ UNCHANGED <<tab, room, store, polling, call, leaves, issued, given, excused>>
-----------------------------------------------------------------------------
(* The page's life *)

\* The page loads; the lobby resumes at once.
Load ==
    /\ page = "closed" /\ page' = "open"
    /\ IF kind = "lobby" THEN Resume ELSE UNCHANGED <<call, excused>>
    /\ UNCHANGED <<kind, room, store, polling, leaves, server, given>>

\* pagehide, persisted
Hide ==
    /\ page = "open" /\ page' = "frozen"
    /\ UNCHANGED <<kind, room, store, polling, call, leaves, server, given, excused>>

\* pageshow, persisted
Show ==
    /\ page = "frozen" /\ page' = "open"
    /\ Resume
    /\ UNCHANGED <<kind, room, store, polling, leaves, server, given>>

\* The requests that a page leaves behind may still reach the server.
Left(s) == at[s] \in {"sent", "orphan"}
Gone ==
    /\ page' = "closed" /\ poll' = NoToken
    /\ ask' = [s \in Slots |-> IF Left(s) THEN ask[s] ELSE "none"]
    /\ at' = [s \in Slots |-> IF Left(s) THEN "orphan" ELSE "idle"]
    /\ target' = [s \in Slots |-> IF Left(s) THEN target[s] ELSE NoCode]
    /\ with' = [s \in Slots |-> IF Left(s) THEN with[s] ELSE NoToken]
    /\ got' = [s \in Slots |-> NoToken]
    /\ UNCHANGED <<kind, server, given>>

\* pagehide for good; the leave request outlives the page.
Unload ==
    /\ page = "open" /\ Gone /\ LeaveRoom
    /\ Excuse(Busy \/ (room = NoToken /\ store # NoToken))

\* A crash, or a page dropped from the cache: no event, memory is lost.
Evict ==
    /\ page \in {"open", "frozen"} /\ Gone
    /\ room' = NoToken /\ timer' = NoToken
    /\ Excuse(Busy)
    /\ UNCHANGED <<store, leaves>>

Next ==
    \/ \E s \in Slots :
           \/ Create(s) \/ \E code \in Codes : Join(s, code)
           \/ Serve(s) \/ Refuse(s) \/ Lose(s) \/ ServeOrphan(s)
           \/ Accepted(s) \/ Failed(s)
    \/ OpenPanel \/ Poll \/ PollGone \/ PollFull \/ PollWaits
    \/ Leave \/ \E t \in Tokens : ServeLeave(t) \/ LoseLeave(t)
    \/ \E code \in Codes : RoomEnds(code)
    \/ Load \/ Hide \/ Show \/ Unload \/ Evict

\* The interval fires and its requests are answered, in the end with what the
\* server has; a leave request is carried out or lost.
Fairness ==
    /\ WF_vars(Poll) /\ SF_vars(PollGone)
    /\ WF_vars(PollGone \/ PollFull \/ PollWaits)
    /\ \A t \in Tokens : WF_vars(ServeLeave(t) \/ LoseLeave(t))

Spec == Init /\ [][Next]_vars /\ Fairness
-----------------------------------------------------------------------------
(* Properties *)

\* A seat that the server keeps for this browser can still be left or resumed:
\* its token is in memory or in the store, or a leave or an answer is on its
\* way; through rotations, refusals, leaving while a request runs, freezing and
\* crashes.  Excepted are the seats that were given up: the tab had the room
\* when it opened another.  The other ways to lose track of one are those that
\* set excused: a lost message, a page gone with a request under way, leaving a
\* room that only the store has, an answer about an old token that clears the
\* record of a room that is open, and requests that overlap with a create or a
\* join.
NoOrphan ==
    ~excused => \A t \in seats :
        \/ t \in {room, store} \cup leaves
        \/ \E s \in Slots : t \in {with[s], got[s]}
        \/ issued[t] \in given

\* "A real unload leaves the room": once the page has closed with nothing in
\* the store, the server comes to have no seat of it but those given up.
UnloadLeaves ==
    (page = "closed" /\ store = NoToken /\ ~excused)
        ~> ((\A t \in seats : issued[t] \in given) \/ page = "open" \/ excused)

\* The lobby does not poll for ever with a token that is of no room.
PollEnds ==
    \A t \in Tokens :
        (timer = t /\ t \in 1 .. Len(issued) \ seats) ~> (timer # t \/ page # "open")

\* The comment on a poll's refusal: the room expired or the host closed it.
ResetOnlyWhenGone ==
    [][PollGone => \A t \in seats : Code(t) # Code(poll)]_vars

\* Refuted by the code, RoomPages_switch.cfg: a tab has no more than one room.
\* Opening another neither leaves the one before nor remembers it.
OneRoom == ~excused => \A t, u \in seats \ leaves : Code(t) = Code(u) \/ Busy
=============================================================================
