--------------------------- MODULE RoomPages_proofs ---------------------------
(***************************************************************************)
(* NoOrphan for any number of requests, tokens and friends.  While nothing   *)
(* is excused the server keeps at most one seat for this browser that is    *)
(* not about to be left (Alone), an answer on its way names it (Answered),  *)
(* and requests that would replace it were sent with its token (Claims).    *)
(***************************************************************************)
EXTENDS RoomPages, SequenceTheorems, TLAPS

\* A slot without a request is empty; a request that waits has no answer.
Slotted ==
    \A s \in Slots :
        /\ ask[s] = "none" => at[s] = "idle" /\ with[s] = NoToken /\ got[s] = NoToken
        /\ ask[s] # "none" => at[s] # "idle"
        /\ ask[s] \in {"create", "join"} => with[s] = NoToken
        /\ ask[s] = "join" => target[s] # NoCode
        /\ ask[s] = "resume" => with[s] # NoToken
        /\ at[s] \in {"sent", "refused", "orphan"} => got[s] = NoToken
        /\ at[s] = "answered" => got[s] # NoToken

\* No token is from the future.
Issued ==
    /\ room <= Len(issued) /\ store <= Len(issued)
    /\ \A s \in Slots : with[s] <= Len(issued) /\ got[s] <= Len(issued)

\* What is stored is the room's token, and polls are of an open room.
OneRecord ==
    /\ room # NoToken /\ store # NoToken => room = store
    /\ timer # NoToken \/ poll # NoToken => room # NoToken \/ store = NoToken

\* A seat has one valid token.
OneToken == \A t, u \in seats : issued[t] = issued[u] => t = u

\* The seats that the tab is to know of.
Live == {t \in seats \ leaves : issued[t] \notin given}

\* NoOrphan, read token by token.
Known(t) ==
    t \in {room, store} \/ t \in leaves \/ \E s \in Slots : with[s] = t \/ got[s] = t
Held == \A t \in seats : Known(t) \/ issued[t] \in given

\* What was given up is nowhere on the page.
GivenUp ==
    \A t \in seats : issued[t] \in given =>
        t \notin {room, store} /\ \A s \in Slots : with[s] # t /\ got[s] # t

\* The page's own record of its seat, while nothing is excused.
Recorded ==
    /\ room \notin leaves /\ store \notin leaves
    /\ room \in seats => store = room
    /\ Held /\ GivenUp

\* A create or a join runs alone; without one there is one live seat at most.
Opens(s) == ask[s] \in {"create", "join"}
Alone ==
    /\ (\E s \in Slots : Opens(s)) \/ \A t, u \in Live : t = u
    /\ \A s \in Slots :
           /\ at[s] \notin {"lost", "orphan"}
           /\ Opens(s) => \A r \in Slots : r # s => ask[r] = "none"

\* The seat of an answer is the one that is left of its room, and nobody knows
\* it yet.
Answered ==
    \A s \in Slots :
        at[s] = "answered" =>
            /\ got[s] \in seats => issued[got[s]] \notin given
            /\ ask[s] = "resume" => Live \subseteq {got[s]}
            /\ \A t \in {room, store} \cap seats : Another(t, got[s])
            /\ got[s] \notin {room, store} \cup leaves
            /\ \A r \in Slots : with[r] # got[s]
            /\ \A r \in Slots : at[r] = "sent" => with[r] \notin seats
            /\ \A r \in Slots : at[r] = "answered" => r = s

\* Resumes were sent with the token of the one seat, or one that is being left.
Claims ==
    \A s \in Slots : ask[s] = "resume" =>
        /\ at[s] \in {"answered", "refused"} => with[s] \notin seats
        /\ room = NoToken /\ store # NoToken => with[s] = store
        /\ at[s] = "sent" /\ with[s] \in seats =>
               /\ with[s] \in leaves => Live = {}
               /\ \A r \in Slots : at[r] = "sent" /\ with[r] \in seats => with[r] = with[s]

Tracked == ~excused => Recorded /\ Alone /\ Answered /\ Claims

IInv == TypeOK /\ Slotted /\ Issued /\ OneRecord /\ OneToken /\ Tracked

LEMMA Bounds == Slots \subseteq Nat /\ MaxTokens \in Nat /\ MaxTokens >= 1
  BY BoundsAssumption

\* A new token is behind all others, its seat is the one asked for, no other
\* token has that seat, and no seat is lost but those replaced.
LEMMA GrantedFacts ==
  ASSUME TypeOK, Slotted, Issued, OneToken, NEW s \in Slots, ask[s] # "none", Granted(s)
  PROVE  /\ Len(issued) \in Nat /\ Len(issued) < MaxTokens
         /\ issued' \in Seq(Seat) /\ Len(issued') = Len(issued) + 1
         /\ \A t \in 1 .. Len(issued) : issued'[t] = issued[t]
         /\ issued'[Len(issued) + 1] = SeatFor(s)
         /\ seats' = (seats \ Replaced(s)) \cup {Len(issued) + 1}
         /\ \A t \in seats \ Replaced(s) : issued'[t] = issued[t] /\ issued[t] # SeatFor(s)
         /\ given' = given \ {SeatFor(s)} /\ given' \subseteq Seat
         /\ OneToken'
<1> USE Bounds DEF TypeOK, NoToken
<1>1. issued \in Seq(Seat) /\ Len(issued) \in Nat /\ Len(issued) < MaxTokens
  BY DEF Granted
<1>2. /\ issued' = Append(issued, SeatFor(s))
      /\ seats' = (seats \ Replaced(s)) \cup {Len(issued) + 1}
      /\ given' = given \ {SeatFor(s)}
  BY DEF Granted
<1>3. SeatFor(s) \in Seat
  <2>1. CASE ask[s] = "create"
    <3>1. Len(issued) + 1 \in Codes
      BY <1>1, BoundsAssumption DEF Codes
    <3> QED
      BY <2>1, <3>1 DEF SeatFor, Seat
  <2>2. CASE ask[s] = "join"
    <3>1. target[s] \in Codes
      BY <2>2 DEF Slotted
    <3> QED
      BY <2>2, <3>1 DEF SeatFor, Seat
  <2>3. CASE ask[s] = "resume"
    <3>1. with[s] \in 1 .. Len(issued)
      BY <2>3 DEF Granted
    <3>2. \A q \in 1 .. Len(issued) : issued[q] \in Seat
      BY <1>1, ElementOfSeq
    <3>3. SeatFor(s) = issued[with[s]]
      BY <2>3 DEF SeatFor
    <3> QED
      BY <3>1, <3>2, <3>3
  <2> QED
    BY <2>1, <2>2, <2>3
<1>4. /\ issued' \in Seq(Seat) /\ Len(issued') = Len(issued) + 1
      /\ \A t \in 1 .. Len(issued) : issued'[t] = issued[t]
      /\ issued'[Len(issued) + 1] = SeatFor(s)
  BY <1>1, <1>2, <1>3
<1>5. \A t \in seats \ Replaced(s) : issued'[t] = issued[t] /\ issued[t] # SeatFor(s)
  BY <1>4 DEF Replaced
<1>6. OneToken'
  <2> SUFFICES ASSUME NEW t \in seats', NEW u \in seats', issued'[t] = issued'[u]
               PROVE  t = u
    BY DEF OneToken
  <2>1. /\ t \in seats \ Replaced(s) \/ t = Len(issued) + 1
        /\ u \in seats \ Replaced(s) \/ u = Len(issued) + 1
    BY <1>2
  <2> QED
    BY <2>1, <1>4, <1>5 DEF OneToken
<1>7. given' \subseteq Seat
  BY <1>2
<1> QED
  BY <1>1, <1>2, <1>4, <1>5, <1>6, <1>7

\* The new token is valid, the others that are valid were valid before.
LEMMA GrantedTypes ==
  ASSUME TypeOK, Slotted, Issued, OneToken, NEW s \in Slots, ask[s] # "none", Granted(s)
  PROVE  /\ Len(issued') <= MaxTokens /\ seats' \subseteq 1 .. Len(issued')
         /\ leaves \subseteq 1 .. Len(issued')
<1>1. /\ Len(issued) \in Nat /\ Len(issued) < MaxTokens /\ Len(issued') = Len(issued) + 1
      /\ seats' = (seats \ Replaced(s)) \cup {Len(issued) + 1}
  BY GrantedFacts
<1>2. seats \subseteq 1 .. Len(issued) /\ leaves \subseteq 1 .. Len(issued)
  BY DEF TypeOK
<1>3. Len(issued') <= MaxTokens /\ leaves \subseteq 1 .. Len(issued')
  BY <1>1, <1>2, Bounds
<1>4. 1 .. Len(issued) \subseteq 1 .. Len(issued') /\ Len(issued) + 1 \in 1 .. Len(issued')
  BY <1>1
<1> QED
  BY <1>1, <1>2, <1>3, <1>4

\* The seat of the page's room is live, and there is no other on the page.
LEMMA Home ==
  ASSUME Recorded
  PROVE  /\ {room, store} \cap seats \subseteq Live
         /\ \A t, u \in {room, store} \cap seats : t = u
BY DEF Recorded, GivenUp, Live

\* No step makes the browser forget a seat that it keeps.
LEMMA HeldKept ==
  ASSUME Held, \A t \in seats' : t \in seats, issued' = issued, given \subseteq given',
         \A t \in seats' : t \in {room, store} \/ t \in leaves =>
                               Known(t)' \/ issued[t] \in given',
         \A t \in seats' : \A r \in Slots : with[r] = t \/ got[r] = t =>
                               Known(t)' \/ issued[t] \in given'
  PROVE  Held'
<1> SUFFICES ASSUME NEW t \in seats' PROVE Known(t)' \/ issued'[t] \in given'
  BY DEF Held
<1>1. t \in seats /\ (Known(t) \/ issued[t] \in given)
  BY DEF Held
<1> QED
  BY <1>1 DEF Known

\* Tokens stay apart when none is issued.
LEMMA TokensKept ==
  ASSUME OneToken, seats' \subseteq seats, issued' = issued
  PROVE  OneToken'
BY DEF OneToken

LEMMA InitIInv == Init => IInv
<1> SUFFICES ASSUME Init PROVE IInv
  OBVIOUS
<1> USE Bounds DEF Init, NoToken, NoCode
<1>1. TypeOK
  <2>1. issued \in Seq(Seat) /\ Len(issued) = 0
    OBVIOUS
  <2>2. /\ ask \in [Slots -> {"none", "create", "join", "resume"}]
        /\ at \in [Slots -> {"idle", "sent", "answered", "refused", "lost", "orphan"}]
        /\ target \in [Slots -> Codes \cup {NoCode}]
        /\ with \in [Slots -> Token] /\ got \in [Slots -> Token]
    BY DEF Token
  <2>3. /\ room \in Token /\ store \in Token /\ timer \in Token /\ poll \in Token
        /\ excused \in BOOLEAN /\ given \subseteq Seat
        /\ kind \in {"lobby", "player"} /\ page \in {"closed", "open", "frozen"}
    BY DEF Token
  <2>4. /\ Len(issued) <= MaxTokens
        /\ seats \subseteq 1 .. Len(issued) /\ leaves \subseteq 1 .. Len(issued)
    BY <2>1
  <2> QED
    BY <2>1, <2>2, <2>3, <2>4 DEF TypeOK
<1>2. Slotted /\ Issued /\ OneRecord /\ OneToken
  BY DEF Slotted, Issued, OneRecord, OneToken
<1>3. Recorded /\ Alone /\ Answered /\ Claims
  BY DEF Recorded, Held, GivenUp, Live, Alone, Answered, Claims, Opens
<1> QED
  BY <1>2, <1>1, <1>3 DEF IInv, Tracked

LEMMA ClickKeeps ==
  ASSUME IInv, NEW s \in Slots, NEW op \in {"create", "join"}, NEW code \in Codes \cup {NoCode},
         op = "join" => code # NoCode, Click(s, op, code)
  PROVE  IInv'
<1> USE Bounds DEF IInv, Click, polling, server, tab, InFlight, Busy, Excuse, Send,
             NoToken, NoCode
<1>1. TypeOK'
  BY DEF TypeOK, Token, Tokens
<1>2. Slotted'
  BY DEF Slotted, TypeOK
<1>3. Issued'
  BY DEF Issued, TypeOK, Token, Tokens
<1>4. OneRecord' /\ OneToken'
  BY TokensKept DEF OneRecord
<1>5. ASSUME ~excused' PROVE (Recorded /\ Alone /\ Answered /\ Claims)'
  <2> USE <1>5 DEF Tracked, TypeOK, Token, Tokens
  <2>0. /\ ~excused /\ \A r \in Slots : ask[r] = "none" /\ at[r] = "idle"
        /\ ask'[s] = op /\ at'[s] = "sent" /\ with' = with /\ got' = got
        /\ \A r \in Slots : r # s => ask'[r] = "none" /\ at'[r] = "idle"
    BY DEF Slotted
  <2>1. Recorded'
    <3>1. Held'
      BY <2>0 DEF Recorded, Held, Known
    <3>2. GivenUp'
      BY <2>0 DEF GivenUp, Recorded
    <3> QED
      BY <3>1, <3>2 DEF Recorded, OneRecord
  <2>2. Alone'
    BY <2>0 DEF Alone, Opens
  <2>3. Answered'
    BY <2>0 DEF Answered
  <2>4. Claims'
    BY <2>0 DEF Claims
  <2> QED
    BY <2>1, <2>2, <2>3, <2>4
<1> QED
  BY <1>1, <1>2, <1>3, <1>4, <1>5 DEF Tracked

\* What the panel, the lobby and a page that comes back do first.
LEMMA ResumeKeeps ==
  ASSUME IInv, Resume, UNCHANGED <<room, store, polling, leaves, server, given>>
  PROVE  /\ ask' \in [Slots -> {"none", "create", "join", "resume"}]
         /\ at' \in [Slots -> {"idle", "sent", "answered", "refused", "lost", "orphan"}]
         /\ target' \in [Slots -> Codes \cup {NoCode}]
         /\ with' \in [Slots -> Token] /\ got' \in [Slots -> Token]
         /\ excused' \in BOOLEAN
         /\ Slotted' /\ Issued' /\ OneRecord' /\ OneToken' /\ Tracked'
<1> USE Bounds DEF IInv, polling, server, NoToken, NoCode
<1>1. CASE store = NoToken
  <2>1. UNCHANGED <<call, excused, room, store, polling, leaves, server, given>>
    BY <1>1 DEF Resume
  <2> QED
    BY <2>1 DEF call, TypeOK, Slotted, Issued, OneRecord, OneToken, Tracked, Recorded, Held,
                Known, GivenUp, Alone, Opens, Live, Answered, Another, Code, Hosts, Claims
<1>2. CASE store # NoToken
  <2> USE DEF Send, InFlight, Excuse, TypeOK
  <2>1. PICK s \in Slots : Send(s, "resume", NoCode, store)
    BY <1>2 DEF Resume
  <2>2. /\ ask[s] = "none" /\ with[s] = NoToken /\ got[s] = NoToken
        /\ ask'[s] = "resume" /\ at'[s] = "sent" /\ with'[s] = store /\ got' = got
        /\ \A r \in Slots : r # s => /\ ask'[r] = ask[r] /\ at'[r] = at[r]
                                     /\ with'[r] = with[r] /\ target'[r] = target[r]
    BY <2>1 DEF Slotted
  <2>3. /\ ask' \in [Slots -> {"none", "create", "join", "resume"}]
        /\ at' \in [Slots -> {"idle", "sent", "answered", "refused", "lost", "orphan"}]
        /\ target' \in [Slots -> Codes \cup {NoCode}]
        /\ with' \in [Slots -> Token] /\ got' \in [Slots -> Token]
        /\ excused' \in BOOLEAN
    BY <1>2, <2>1 DEF Resume
  <2>4. Slotted' /\ Issued' /\ OneRecord' /\ OneToken'
    BY <1>2, <2>2, TokensKept DEF Slotted, Issued, OneRecord
  <2>5. ASSUME ~excused' PROVE (Recorded /\ Alone /\ Answered /\ Claims)'
    <3>1. ~excused /\ \A r \in Slots : ~Opens(r) /\ ~Opens(r)'
      BY <1>2, <2>2, <2>5 DEF Resume, Opens
    <3>2. Recorded /\ Alone /\ Answered /\ Claims
      BY <3>1 DEF Tracked
    <3>3. Recorded'
      <4>1. Held'
        BY <2>2, <3>2 DEF Recorded, Held, Known
      <4>2. GivenUp'
        BY <2>2, <3>2 DEF Recorded, GivenUp
      <4> QED
        BY <3>2, <4>1, <4>2 DEF Recorded
    <3>4. Live' = Live
      BY DEF Live
    <3>5. \A t, u \in Live : t = u
      BY <3>1, <3>2 DEF Alone
    <3>6. Alone'
      BY <2>2, <3>1, <3>2, <3>4 DEF Alone
    <3>7. store \in seats => store \in Live
      BY <3>2, Home
    <3>8. Answered'
      <4>1. ASSUME NEW q \in Slots, at'[q] = "answered" PROVE store \notin seats
        <5>1. ask[q] = "resume" /\ at[q] = "answered"
          BY <4>1, <2>2, <3>1 DEF Slotted, Opens
        <5> QED
          BY <5>1, <3>2, <3>7 DEF Answered
      <4> QED
        <5>1. \A t, u : Another(t, u)' <=> Another(t, u)
          BY DEF Another, Code, Hosts
        <5>2. \A q \in Slots : got'[q] = got[q]
          BY <2>2
        <5> QED
          BY <4>1, <5>1, <5>2, <2>2, <3>2, <3>4 DEF Answered
    <3>9. Claims'
      <4>1. \A r \in Slots : /\ at[r] = "sent" /\ with[r] \in seats /\ store \in seats
                              => with[r] = store
        <5> SUFFICES ASSUME NEW r \in Slots, at[r] = "sent", with[r] \in seats, store \in seats
                     PROVE  with[r] = store
          OBVIOUS
        <5>1. ask[r] = "resume"
          BY <2>2, <3>1 DEF Slotted, Opens
        <5>2. with[r] \notin leaves
          BY <5>1, <3>7, <3>2 DEF Claims
        <5>3. with[r] \in Live
          BY <5>2, <3>2 DEF Live, Recorded, GivenUp
        <5> QED
          BY <5>3, <3>5, <3>7
      <4>2. store \notin leaves
        BY <3>2 DEF Recorded
      <4> QED
        BY <2>2, <3>2, <3>4, <4>1, <4>2 DEF Claims
    <3> QED
      BY <3>3, <3>6, <3>8, <3>9
  <2> QED
    BY <2>3, <2>4, <2>5 DEF Tracked
<1> QED
  BY <1>1, <1>2

LEMMA OpenPanelKeeps ==
  ASSUME IInv, OpenPanel
  PROVE  IInv'
<1>1. Slotted' /\ Issued' /\ OneRecord' /\ OneToken' /\ Tracked'
  BY ResumeKeeps DEF OpenPanel
<1>2. TypeOK'
  BY ResumeKeeps DEF OpenPanel, IInv, TypeOK, tab, polling, server
<1> QED
  BY <1>1, <1>2 DEF IInv

LEMMA ServeKeeps ==
  ASSUME IInv, NEW s \in Slots, Serve(s)
  PROVE  IInv'
<1> USE Bounds DEF IInv, Serve, polling, tab, Goes, NoToken
<1>0. at[s] = "sent" /\ Granted(s) /\ ask[s] # "none"
  BY DEF Slotted
<1>1. TypeOK'
  <2>1. with' \in [Slots -> Token] /\ got' \in [Slots -> Token]
    BY <1>0, GrantedFacts DEF TypeOK, Token, Tokens
  <2> QED
    BY <1>0, <2>1, GrantedFacts, GrantedTypes DEF TypeOK
<1>2. Slotted'
  BY <1>0, GrantedFacts DEF Slotted, TypeOK
<1>3. Issued'
  <2>1. Len(issued') = Len(issued) + 1 /\ Len(issued) \in Nat
    BY <1>0, GrantedFacts
  <2> QED
    BY <2>1 DEF Issued, TypeOK, Token, Tokens
<1>4. OneRecord' /\ OneToken'
  BY <1>0, GrantedFacts DEF OneRecord
<1>5. ASSUME ~excused' PROVE (Recorded /\ Alone /\ Answered /\ Claims)'
  <2> USE <1>0, <1>5 DEF Tracked, TypeOK, Token, Tokens
  <2> DEFINE new == Len(issued) + 1
  <2>1. /\ new \notin seats /\ new \notin leaves /\ new # room /\ new # store /\ new # NoToken
        /\ \A r \in Slots : with[r] # new
    BY DEF Issued
  <2>2. /\ seats' = (seats \ Replaced(s)) \cup {new} /\ given' = given \ {SeatFor(s)}
        /\ issued'[new] = SeatFor(s)
        /\ \A t \in seats \ Replaced(s) : issued'[t] = issued[t] /\ issued[t] # SeatFor(s)
    BY GrantedFacts
  <2> HIDE DEF new
  <2>3. got'[s] = new /\ got[s] = NoToken /\ \A r \in Slots : r # s => got'[r] = got[r]
    BY DEF new, Slotted
  <2>4. \A r \in Slots : r # s => ask[r] = "none" \/ (ask[r] = "resume" /\ ask[s] = "resume")
    <3>1. ask[s] # "none" /\ \A r \in Slots : ask[r] \in {"none", "create", "join", "resume"}
      OBVIOUS
    <3>2. \A r \in Slots : Opens(r) => \A q \in Slots : q # r => ask[q] = "none"
      BY DEF Alone
    <3>3. ASSUME NEW r \in Slots, r # s
          PROVE  ask[r] = "none" \/ (ask[r] = "resume" /\ ask[s] = "resume")
      <4>1. ~Opens(r)
        BY <3>1, <3>2, <3>3
      <4>2. ask[r] # "none" => ~Opens(s)
        BY <3>2, <3>3
      <4> QED
        BY <3>1, <4>1, <4>2 DEF Opens
    <3> QED
      BY <3>3
  <2>5. ask[s] = "resume" => with[s] \in seats /\ Replaced(s) = {with[s]}
    BY DEF Granted, Replaced, SeatFor, OneToken
  <2>6. ask[s] = "resume" => Live \subseteq {with[s]}
    <3> SUFFICES ASSUME ask[s] = "resume" PROVE Live \subseteq {with[s]}
      OBVIOUS
    <3>1. with[s] \in leaves => Live = {}
      BY <2>5 DEF Claims
    <3>2. with[s] \notin leaves => with[s] \in Live
      BY <2>5 DEF Recorded, GivenUp, Live
    <3>3. \A t, u \in Live : t = u
      <4>1. \A r \in Slots : ~Opens(r)
        BY <2>4 DEF Opens
      <4> QED
        BY <4>1 DEF Alone
    <3> QED
      BY <3>1, <3>2, <3>3
  <2>7. \A t \in seats' : t = new \/ (/\ t \in seats \ Replaced(s)
                                      /\ issued'[t] = issued[t]
                                      /\ issued'[t] \in given' <=> issued[t] \in given)
    BY <2>2
  <2>8. issued'[new] \notin given'
    BY <2>2
  <2>9. ask[s] = "resume" => Live' \subseteq {new}
    BY <2>5, <2>6, <2>7 DEF Live
  <2>10. \A r \in Slots : at'[r] = "answered" => r = s
    BY <2>4, <2>5 DEF Answered, Slotted
  <2>11. \A r \in Slots : at'[r] \in {"sent", "refused"} => with[r] \notin seats'
    <3> SUFFICES ASSUME NEW r \in Slots, at'[r] \in {"sent", "refused"}
                 PROVE  with[r] \notin seats'
      OBVIOUS
    <3>1. r # s /\ at[r] = at'[r]
      OBVIOUS
    <3>2. ask[r] = "resume" /\ ask[s] = "resume"
      BY <3>1, <2>4 DEF Slotted
    <3>3. with[r] \in seats => with[r] = with[s]
      BY <3>1, <3>2, <2>5 DEF Claims
    <3> QED
      BY <3>2, <3>3, <2>1, <2>2, <2>5
  <2>12. Recorded'
    <3>1. Held'
      <4> SUFFICES ASSUME NEW t \in seats' PROVE Known(t)' \/ issued'[t] \in given'
        BY DEF Held
      <4>1. CASE t = new
        BY <4>1, <2>3 DEF Known
      <4>2. CASE t # new
        <5>1. Known(t) \/ issued[t] \in given
          BY <4>2, <2>7 DEF Recorded, Held
        <5>2. t # NoToken
          BY <4>2, <2>7
        <5> QED
          BY <4>2, <5>1, <5>2, <2>3, <2>7 DEF Known
      <4> QED
        BY <4>1, <4>2
    <3>2. GivenUp'
      <4> SUFFICES ASSUME NEW t \in seats', issued'[t] \in given'
                   PROVE  t \notin {room, store} /\ \A r \in Slots : with[r] # t /\ got'[r] # t
        BY DEF GivenUp
      <4>1. t # new /\ t \in seats /\ issued[t] \in given
        BY <2>7, <2>8
      <4> QED
        BY <4>1, <2>3 DEF Recorded, GivenUp
    <3> QED
      BY <3>1, <3>2, <2>1, <2>2 DEF Recorded
  <2>13. Alone'
    <3>1. \A r \in Slots : at'[r] \notin {"lost", "orphan"}
      BY DEF Alone
    <3>2. (\E r \in Slots : Opens(r)') \/ \A t, u \in Live' : t = u
      <4>1. CASE ask[s] = "resume"
        BY <4>1, <2>9
      <4>2. CASE ask[s] # "resume"
        BY <4>2 DEF Opens
      <4> QED
        BY <4>1, <4>2
    <3>3. \A r, q \in Slots : Opens(r)' /\ q # r => ask'[q] = "none"
      BY DEF Alone, Opens
    <3> QED
      BY <3>1, <3>2, <3>3 DEF Alone
  <2>14. \A t \in {room, store} \cap seats' :
             issued'[t] # issued'[new] /\ ~(issued'[new][2] = "host" /\ issued'[t][1] \in Own)
    <3> SUFFICES ASSUME NEW t \in {room, store} \cap seats'
                 PROVE  /\ issued'[t] # issued'[new]
                        /\ ~(issued'[new][2] = "host" /\ issued'[t][1] \in Own)
      OBVIOUS
    <3>1. t \in seats \ Replaced(s) /\ issued'[t] = issued[t] /\ issued[t] # SeatFor(s)
      BY <2>1, <2>2
    <3>2. ask[s] # "resume"
      BY <3>1, <2>5, <2>6, Home
    <3>3. CASE ask[s] = "create"
      BY <3>1, <3>3, <2>2 DEF Replaced, Code
    <3>4. CASE ask[s] = "join"
      <4>1. SeatFor(s)[2] = "guest"
        BY <3>4 DEF SeatFor
      <4> QED
        BY <3>1, <4>1, <2>2
    <3> QED
      BY <3>2, <3>3, <3>4
  <2>15. Answered'
    <3> SUFFICES ASSUME NEW q \in Slots, at'[q] = "answered", q = s
                 PROVE  /\ got'[q] \in seats' => issued'[got'[q]] \notin given'
                        /\ ask'[q] = "resume" => Live' \subseteq {got'[q]}
                        /\ \A t \in {room', store'} \cap seats' : Another(t, got[q])'
                        /\ got'[q] \notin {room', store'} \cup leaves'
                        /\ \A r \in Slots : with'[r] # got'[q]
                        /\ \A r \in Slots : at'[r] = "sent" => with'[r] \notin seats'
                        /\ \A r \in Slots : at'[r] = "answered" => r = q
      BY <2>10 DEF Answered
    <3>1. got'[q] = new
      BY <2>3
    <3>2. \A t \in {room, store} \cap seats' : Another(t, got[q])'
      BY <3>1, <2>14 DEF Another, Code, Hosts
    <3> QED
      BY <3>1, <3>2, <2>1, <2>8, <2>9, <2>10, <2>11
  <2>16. Claims'
    BY <2>1, <2>2, <2>5, <2>10, <2>11 DEF Claims
  <2> QED
    BY <2>12, <2>13, <2>15, <2>16
<1> QED
  BY <1>1, <1>2, <1>3, <1>4, <1>5 DEF Tracked

LEMMA RefuseKeeps ==
  ASSUME IInv, NEW s \in Slots, Refuse(s)
  PROVE  IInv'
<1> USE Bounds DEF IInv, Refuse, polling, server, tab, Goes, NoToken
<1>1. TypeOK'
  BY DEF TypeOK, Token, Tokens
<1>2. Slotted'
  BY DEF Slotted, TypeOK
<1>3. Issued'
  BY DEF Issued, TypeOK, Token, Tokens
<1>4. OneRecord' /\ OneToken'
  BY TokensKept DEF OneRecord
<1>5. ASSUME ~excused' PROVE (Recorded /\ Alone /\ Answered /\ Claims)'
  <2> USE <1>5 DEF Tracked, TypeOK, Token, Tokens
  <2>1. Recorded'
    <3>1. Held'
      BY DEF Recorded, Held, Known
    <3>2. GivenUp'
      BY DEF GivenUp, Recorded
    <3> QED
      BY <3>1, <3>2 DEF Recorded, OneRecord
  <2>2. Alone'
    BY DEF Alone, Live, Opens
  <2>3. Answered'
    BY DEF Answered, Live, Slotted, Another, Code, Hosts
  <2>4. Claims'
    BY DEF Claims, Live, Slotted
  <2> QED
    BY <2>1, <2>2, <2>3, <2>4
<1> QED
  BY <1>1, <1>2, <1>3, <1>4, <1>5 DEF Tracked

LEMMA LoseKeeps ==
  ASSUME IInv, NEW s \in Slots, Lose(s)
  PROVE  IInv'
<1> USE Bounds DEF IInv, Lose, polling, server, tab, Excuse, Goes, NoToken
<1>1. TypeOK'
  BY DEF TypeOK, Token, Tokens
<1>2. Slotted'
  BY DEF Slotted, TypeOK
<1>3. Issued'
  BY DEF Issued, TypeOK, Token, Tokens
<1>4. OneRecord' /\ OneToken'
  BY TokensKept DEF OneRecord
<1>5. ASSUME ~excused' PROVE (Recorded /\ Alone /\ Answered /\ Claims)'
  BY <1>5
<1> QED
  BY <1>1, <1>2, <1>3, <1>4, <1>5 DEF Tracked

LEMMA ServeOrphanKeeps ==
  ASSUME IInv, NEW s \in Slots, ServeOrphan(s)
  PROVE  IInv'
<1> USE Bounds DEF IInv, ServeOrphan, polling, server, tab, Forget, NoToken, NoCode
<1>0. at[s] = "orphan" /\ ask[s] # "none"
  BY DEF Slotted
<1>1. TypeOK'
  <2>1. /\ issued' \in Seq(Seat) /\ Len(issued') <= MaxTokens /\ given' \subseteq Seat
        /\ seats' \subseteq 1 .. Len(issued') /\ leaves \subseteq 1 .. Len(issued')
    BY <1>0, GrantedFacts, GrantedTypes DEF TypeOK
  <2> QED
    BY <2>1 DEF TypeOK, Token
<1>2. Slotted'
  BY <1>0 DEF Slotted, TypeOK
<1>3. Issued'
  <2>1. Len(issued) \in Nat /\ (Len(issued') = Len(issued) + 1 \/ Len(issued') = Len(issued))
    BY <1>0, GrantedFacts DEF TypeOK
  <2> QED
    BY <2>1 DEF Issued, TypeOK, Token, Tokens
<1>4. OneRecord' /\ OneToken'
  BY <1>0, GrantedFacts, TokensKept DEF OneRecord
<1>5. excused'
  BY <1>0 DEF Tracked, Alone, TypeOK
<1> QED
  BY <1>1, <1>2, <1>3, <1>4, <1>5 DEF Tracked

LEMMA AcceptedKeeps ==
  ASSUME IInv, NEW s \in Slots, Accepted(s)
  PROVE  IInv'
<1> USE Bounds DEF IInv, Accepted, server, tab, Forget, Stored, ShowRoom, NoToken, NoCode
<1>1. TypeOK'
  BY DEF TypeOK, Token, Tokens
<1>2. Slotted'
  BY DEF Slotted, TypeOK
<1>3. Issued'
  BY DEF Issued, TypeOK, Token, Tokens
<1>4. OneRecord' /\ OneToken'
  BY TokensKept DEF OneRecord
<1>5. ASSUME ~excused' PROVE (Recorded /\ Alone /\ Answered /\ Claims)'
  <2> USE <1>5 DEF Tracked, TypeOK, Token, Tokens
  <2> DEFINE new == got[s]
             left == {room, store} \cap seats
  <2>1. /\ at[s] = "answered" /\ ask[s] # "none" /\ new # NoToken
        /\ new \notin {room, store} \cup leaves /\ issued' = issued
        /\ (new \in seats => issued[new] \notin given)
        /\ room' = new /\ store' = new /\ with'[s] = NoToken /\ got'[s] = NoToken
        /\ \A r \in Slots : r # s => /\ ask'[r] = ask[r] /\ at'[r] = at[r]
                                     /\ with'[r] = with[r] /\ got'[r] = got[r]
    BY DEF Slotted, Answered
  <2>2. given' = given \cup {issued[t] : t \in left}
    <3>1. \A t \in left : Another(t, new)
      BY DEF Answered
    <3> QED
      BY <3>1
  <2>3. \A t \in seats : issued[t] \in given' <=> issued[t] \in given \/ t \in left
    BY <2>2 DEF OneToken
  <2>4. with[s] \notin seats
    BY DEF Slotted, Claims
  <2>5. ask[s] = "resume" => left = {} /\ Live \subseteq {new}
    BY <2>1, Home DEF Answered
  <2>6. \A r \in Slots : Opens(s) /\ r # s => ask[r] = "none"
    BY DEF Alone
  <2>7. Opens(s) => \A r \in Slots : r # s => with[r] = NoToken /\ got[r] = NoToken
    BY <2>6 DEF Slotted
  <2> HIDE DEF new
  <2>8. Recorded'
    <3>1. Held'
      <4> SUFFICES ASSUME NEW t \in seats PROVE Known(t)' \/ issued[t] \in given'
        BY <2>1 DEF Held
      <4>1. Known(t) \/ issued[t] \in given
        BY DEF Recorded, Held
      <4>2. t \in leaves \/ t = new => Known(t)'
        BY <2>1 DEF Known
      <4>3. \A r \in Slots : r # s /\ (with[r] = t \/ got[r] = t) => Known(t)'
        BY <2>1 DEF Known
      <4> QED
        BY <4>1, <4>2, <4>3, <2>3, <2>4 DEF Known, new
    <3>2. GivenUp'
      <4> SUFFICES ASSUME NEW t \in seats, issued[t] \in given'
                   PROVE  t # new /\ \A r \in Slots : with'[r] # t /\ got'[r] # t
        BY <2>1 DEF GivenUp
      <4>1. CASE issued[t] \in given
        BY <4>1, <2>1 DEF Recorded, GivenUp
      <4>2. CASE t \in left
        <5>1. Opens(s) /\ t # new
          BY <4>2, <2>1, <2>5 DEF Opens
        <5> QED
          BY <5>1, <2>1, <2>7
      <4> QED
        BY <4>1, <4>2, <2>3
    <3> QED
      BY <3>1, <3>2, <2>1 DEF Recorded
  <2>9. \A r \in Slots : ~Opens(r)'
    <3> SUFFICES ASSUME NEW r \in Slots, r # s PROVE ~Opens(r)
      BY <2>1 DEF Opens
    <3> QED
      BY <2>1 DEF Alone
  <2>10. Live' \subseteq {new}
    <3> SUFFICES ASSUME NEW t \in Live' PROVE t = new
      OBVIOUS
    <3>1. t \in Live /\ t \notin left
      BY <2>1, <2>3 DEF Live
    <3>2. CASE Opens(s)
      <4>1. Known(t)
        BY <3>1 DEF Live, Recorded, Held
      <4>2. t \in seats /\ t # NoToken /\ t \notin leaves
        BY <3>1 DEF Live
      <4> QED
        BY <3>1, <3>2, <4>1, <4>2, <2>4, <2>7 DEF Known, new
    <3>3. CASE ~Opens(s)
      BY <3>1, <3>3, <2>1, <2>5 DEF Opens
    <3> QED
      BY <3>2, <3>3
  <2>11. Alone'
    <3>1. \A r \in Slots : at'[r] \notin {"lost", "orphan"}
      BY DEF Alone
    <3> QED
      BY <3>1, <2>9, <2>10 DEF Alone
  <2>12. Answered'
    BY <2>1 DEF Answered
  <2>13. Claims'
    BY <2>1 DEF Answered, Claims
  <2> QED
    BY <2>8, <2>11, <2>12, <2>13
<1> QED
  BY <1>1, <1>2, <1>3, <1>4, <1>5 DEF Tracked

LEMMA FailedKeeps ==
  ASSUME IInv, NEW s \in Slots, Failed(s)
  PROVE  IInv'
<1> USE Bounds DEF IInv, Failed, polling, server, tab, Excuse, Forget, Clears, NoToken, NoCode
<1>1. TypeOK'
  BY DEF TypeOK, Token, Tokens
<1>2. Slotted'
  BY DEF Slotted, TypeOK
<1>3. Issued'
  BY DEF Issued, TypeOK, Token, Tokens
<1>4. OneRecord' /\ OneToken'
  BY TokensKept DEF OneRecord
<1>5. ASSUME ~excused' PROVE (Recorded /\ Alone /\ Answered /\ Claims)'
  <2> USE <1>5 DEF Tracked, TypeOK, Token, Tokens
  <2>1. Recorded'
    <3>1. Held'
      <4>1. /\ \A t \in seats' : t \in {room, store} \/ t \in leaves =>
                                 Known(t)' \/ issued[t] \in given'
        BY Home DEF Known, Recorded, OneRecord, Claims, Slotted, Alone
      <4>2. \A t \in seats' : \A r \in Slots : with[r] = t \/ got[r] = t =>
                                 Known(t)' \/ issued[t] \in given'
        BY DEF Known, Slotted, Claims, Alone
      <4> QED
        BY HeldKept, <4>1, <4>2 DEF Recorded
    <3>2. GivenUp'
      BY DEF GivenUp, Recorded
    <3> QED
      <4>1. room' \notin leaves' /\ store' \notin leaves'
        BY DEF Recorded
      <4>2. room' \in seats' => store' = room'
        BY DEF Recorded
      <4> QED
        BY <3>1, <3>2, <4>1, <4>2 DEF Recorded
  <2>2. Alone'
    <3>1. \A t, u \in Live' : t = u
      <4>1. CASE Opens(s)
        <5>1. \A r \in Slots : with[r] = NoToken /\ got[r] = NoToken
          BY <4>1 DEF Alone, Slotted, Opens
        <5>2. Live \subseteq {room, store} \cap seats
          BY <5>1 DEF Live, Recorded, Held, Known
        <5> QED
          BY <5>2, Home DEF Live
      <4>2. CASE ~Opens(s)
        <5>1. \A r \in Slots : ~Opens(r)
          BY <4>2 DEF Alone, Slotted
        <5> QED
          BY <5>1 DEF Alone, Live
      <4> QED
        BY <4>1, <4>2
    <3> QED
      BY <3>1 DEF Alone, Opens
  <2>3. Answered'
    BY DEF Answered, Live, Slotted, Another, Code, Hosts
  <2>4. Claims'
    BY DEF Claims, Live, Slotted
  <2> QED
    BY <2>1, <2>2, <2>3, <2>4
<1> QED
  BY <1>1, <1>2, <1>3, <1>4, <1>5 DEF Tracked

\* Steps that leave the records and the requests alone.
LEMMA PollsKeep ==
  ASSUME IInv, Poll \/ PollFull \/ PollWaits \/ Hide
  PROVE  IInv'
<1> USE Bounds DEF IInv, Poll, PollFull, PollWaits, Hide, Polled, Stopped,
             polling, server, tab, call, NoToken
<1>1. TypeOK'
  BY DEF TypeOK, Token, Tokens
<1>2. Slotted'
  BY DEF Slotted, TypeOK
<1>3. Issued'
  BY DEF Issued, TypeOK, Token, Tokens
<1>4. OneRecord' /\ OneToken'
  BY TokensKept DEF OneRecord
<1>5. ASSUME ~excused' PROVE (Recorded /\ Alone /\ Answered /\ Claims)'
  <2> USE <1>5 DEF Tracked, TypeOK, Token, Tokens
  <2>1. Recorded'
    <3>1. Held'
      BY DEF Recorded, Held, Known
    <3>2. GivenUp'
      BY DEF GivenUp, Recorded
    <3> QED
      BY <3>1, <3>2 DEF Recorded, OneRecord
  <2>2. Alone'
    <3>1. Live' = Live /\ \A r \in Slots : Opens(r)' <=> Opens(r)
      BY DEF Live, Opens
    <3> QED
      BY <3>1 DEF Alone
  <2>3. Answered'
    BY DEF Answered, Live, Slotted, Another, Code, Hosts
  <2>4. Claims'
    BY DEF Claims, Live, Slotted
  <2> QED
    BY <2>1, <2>2, <2>3, <2>4
<1> QED
  BY <1>1, <1>2, <1>3, <1>4, <1>5 DEF Tracked

LEMMA PollGoneKeeps ==
  ASSUME IInv, PollGone
  PROVE  IInv'
<1> USE Bounds DEF IInv, PollGone, server, tab, call, Excuse, Polled, Stopped, NoToken
<1>1. TypeOK'
  BY DEF TypeOK, Token, Tokens
<1>2. Slotted'
  BY DEF Slotted, TypeOK
<1>3. Issued'
  BY DEF Issued, TypeOK, Token, Tokens
<1>4. OneRecord' /\ OneToken'
  BY TokensKept DEF OneRecord
<1>5. ASSUME ~excused' PROVE (Recorded /\ Alone /\ Answered /\ Claims)'
  <2> USE <1>5 DEF Tracked, TypeOK, Token, Tokens
  <2>1. Recorded'
    <3>1. Held'
      <4>1. /\ \A t \in seats' : t \in {room, store} \/ t \in leaves =>
                                 Known(t)' \/ issued[t] \in given'
        BY DEF Known, Recorded, OneRecord
      <4>2. \A t \in seats' : \A r \in Slots : with[r] = t \/ got[r] = t =>
                                 Known(t)' \/ issued[t] \in given'
        BY DEF Known
      <4> QED
        BY HeldKept, <4>1, <4>2 DEF Recorded
    <3>2. GivenUp'
      BY DEF GivenUp, Recorded
    <3> QED
      <4>1. room' \notin leaves' /\ store' \notin leaves'
        BY DEF Recorded
      <4>2. room' \in seats' => store' = room'
        BY DEF Recorded
      <4> QED
        BY <3>1, <3>2, <4>1, <4>2 DEF Recorded
  <2>2. Alone'
    BY DEF Alone, Live, Opens
  <2>3. Answered'
    <3>1. Live' = Live /\ \A t, u : Another(t, u)' <=> Another(t, u)
      BY DEF Live, Another, Code, Hosts
    <3>2. \A q \in Slots : at[q] = "answered" => got[q] # NoToken
      BY DEF Slotted
    <3> QED
      BY <3>1, <3>2 DEF Answered
  <2>4. Claims'
    BY DEF Claims, Live, Slotted
  <2> QED
    BY <2>1, <2>2, <2>3, <2>4
<1> QED
  BY <1>1, <1>2, <1>3, <1>4, <1>5 DEF Tracked

LEMMA LeaveKeeps ==
  ASSUME IInv, Leave
  PROVE  IInv'
<1> USE Bounds DEF IInv, Leave, server, tab, call, Excuse, LeaveSent, LeaveRoom, NoToken
<1>1. TypeOK'
  <2>1. leaves' \subseteq 1 .. Len(issued)
    BY DEF TypeOK, Token, Tokens, Issued
  <2> QED
    BY <2>1 DEF TypeOK, Token, Tokens
<1>2. Slotted'
  BY DEF Slotted, TypeOK
<1>3. Issued'
  BY DEF Issued, TypeOK, Token, Tokens
<1>4. OneRecord' /\ OneToken'
  BY TokensKept DEF OneRecord
<1>5. ASSUME ~excused' PROVE (Recorded /\ Alone /\ Answered /\ Claims)'
  <2> USE <1>5 DEF Tracked, TypeOK, Token, Tokens
  <2>1. Recorded'
    <3>1. Held'
      <4>1. /\ \A t \in seats' : t \in {room, store} \/ t \in leaves =>
                                 Known(t)' \/ issued[t] \in given'
        BY DEF Known, Recorded, OneRecord
      <4>2. \A t \in seats' : \A r \in Slots : with[r] = t \/ got[r] = t =>
                                 Known(t)' \/ issued[t] \in given'
        BY DEF Known
      <4> QED
        BY HeldKept, <4>1, <4>2 DEF Recorded
    <3>2. GivenUp'
      BY DEF GivenUp, Recorded
    <3> QED
      BY <3>1, <3>2 DEF Recorded, OneRecord
  <2>2. Alone'
    BY DEF Alone, Live, Opens
  <2>3. Answered'
    BY DEF Answered, Live, Slotted, Another, Code, Hosts
  <2>4. Claims'
    <3>1. room \in seats /\ (\A r \in Slots : ~Opens(r)) => Live' = {}
      <4> SUFFICES ASSUME room \in seats, \A r \in Slots : ~Opens(r) PROVE Live' = {}
        OBVIOUS
      <4>1. room \in Live /\ \A t, u \in Live : t = u
        BY Home DEF Alone
      <4>2. Live' \subseteq Live \ {room}
        BY DEF Live
      <4> QED
        BY <4>1, <4>2
    <3>2. \A r \in Slots : ask[r] = "resume" => \A q \in Slots : ~Opens(q)
      BY DEF Alone, Opens
    <3> QED
      BY <3>1, <3>2 DEF Claims, Slotted, Live
  <2> QED
    BY <2>1, <2>2, <2>3, <2>4
<1> QED
  BY <1>1, <1>2, <1>3, <1>4, <1>5 DEF Tracked

LEMMA ServeLeaveKeeps ==
  ASSUME IInv, NEW t \in Tokens, ServeLeave(t)
  PROVE  IInv'
<1> USE Bounds DEF IInv, ServeLeave, Closed, polling, tab, call, NoToken
<1>1. TypeOK'
  BY DEF TypeOK, Token, Tokens
<1>2. Slotted'
  BY DEF Slotted, TypeOK
<1>3. Issued'
  BY DEF Issued, TypeOK, Token, Tokens
<1>4. OneRecord' /\ OneToken'
  BY TokensKept DEF OneRecord
<1>5. ASSUME ~excused' PROVE (Recorded /\ Alone /\ Answered /\ Claims)'
  <2> USE <1>5 DEF Tracked, TypeOK, Token, Tokens
  <2>0. seats' \subseteq seats /\ t \notin seats' /\ Live' \subseteq Live
    BY DEF Live
  <2>1. Recorded'
    <3>1. Held'
      BY DEF Recorded, Held, Known
    <3>2. GivenUp'
      BY DEF GivenUp, Recorded
    <3> QED
      BY <3>1, <3>2 DEF Recorded, OneRecord
  <2>2. Alone'
    BY DEF Alone, Live, Opens
  <2>3. Answered'
    BY DEF Answered, Live, Slotted, Another, Code, Hosts
  <2>4. Claims'
    BY DEF Claims, Live, Slotted
  <2> QED
    BY <2>1, <2>2, <2>3, <2>4
<1> QED
  BY <1>1, <1>2, <1>3, <1>4, <1>5 DEF Tracked

LEMMA LoseLeaveKeeps ==
  ASSUME IInv, NEW t \in Tokens, LoseLeave(t)
  PROVE  IInv'
<1> USE Bounds DEF IInv, LoseLeave, polling, server, tab, call, Excuse, NoToken
<1>1. TypeOK'
  BY DEF TypeOK, Token, Tokens
<1>2. Slotted'
  BY DEF Slotted, TypeOK
<1>3. Issued'
  BY DEF Issued, TypeOK, Token, Tokens
<1>4. OneRecord' /\ OneToken'
  BY TokensKept DEF OneRecord
<1>5. ASSUME ~excused' PROVE (Recorded /\ Alone /\ Answered /\ Claims)'
  BY <1>5
<1> QED
  BY <1>1, <1>2, <1>3, <1>4, <1>5 DEF Tracked

LEMMA RoomEndsKeeps ==
  ASSUME IInv, NEW code, RoomEnds(code)
  PROVE  IInv'
<1> USE Bounds DEF IInv, RoomEnds, Closed, polling, tab, call, NoToken
<1>1. TypeOK'
  BY DEF TypeOK, Token, Tokens
<1>2. Slotted'
  BY DEF Slotted, TypeOK
<1>3. Issued'
  BY DEF Issued, TypeOK, Token, Tokens
<1>4. OneRecord' /\ OneToken'
  BY TokensKept DEF OneRecord
<1>5. ASSUME ~excused' PROVE (Recorded /\ Alone /\ Answered /\ Claims)'
  <2> USE <1>5 DEF Tracked, TypeOK, Token, Tokens
  <2>1. Recorded'
    <3>1. Held'
      BY DEF Recorded, Held, Known
    <3>2. GivenUp'
      BY DEF GivenUp, Recorded
    <3> QED
      BY <3>1, <3>2 DEF Recorded, OneRecord
  <2>2. Alone'
    BY DEF Alone, Live, Opens
  <2>3. Answered'
    BY DEF Answered, Live, Slotted, Another, Code, Hosts
  <2>4. Claims'
    BY DEF Claims, Live, Slotted
  <2> QED
    BY <2>1, <2>2, <2>3, <2>4
<1> QED
  BY <1>1, <1>2, <1>3, <1>4, <1>5 DEF Tracked

LEMMA LoadKeeps ==
  ASSUME IInv, Load
  PROVE  IInv'
<1> USE Bounds DEF IInv, Load, tab
<1>1. CASE kind = "lobby"
  <2>1. Slotted' /\ Issued' /\ OneRecord' /\ OneToken' /\ Tracked'
    BY <1>1, ResumeKeeps
  <2>2. TypeOK'
    BY <1>1, ResumeKeeps DEF TypeOK, polling, server
  <2> QED
    BY <2>1, <2>2
<1>2. CASE kind # "lobby"
  <2>1. UNCHANGED <<room, store, polling, call, leaves, server, given, excused>>
    BY <1>2
  <2>2. Slotted' /\ Issued' /\ OneRecord' /\ OneToken' /\ Tracked'
    BY <2>1 DEF polling, call, server, Slotted, Issued, OneRecord, OneToken, Tracked, Recorded,
                Held, Known, GivenUp, Alone, Opens, Live, Answered, Another, Code, Hosts, Claims
  <2>3. TypeOK'
    BY <2>1 DEF polling, call, server, TypeOK
  <2> QED
    BY <2>2, <2>3
<1> QED
  BY <1>1, <1>2

LEMMA ShowKeeps ==
  ASSUME IInv, Show
  PROVE  IInv'
<1>1. Slotted' /\ Issued' /\ OneRecord' /\ OneToken' /\ Tracked'
  BY ResumeKeeps DEF Show
<1>2. TypeOK'
  BY ResumeKeeps DEF Show, IInv, TypeOK, tab, polling, server
<1> QED
  BY <1>1, <1>2 DEF IInv

LEMMA UnloadKeeps ==
  ASSUME IInv, Unload
  PROVE  IInv'
<1> USE Bounds DEF IInv, Unload, server, InFlight, Busy, Excuse, LeaveSent, LeaveRoom, Left,
             Gone, NoToken, NoCode
<1>1. TypeOK'
  <2>1. leaves' \subseteq 1 .. Len(issued)
    BY DEF TypeOK, Token, Tokens, Issued
  <2> QED
    BY <2>1 DEF TypeOK, Token, Tokens
<1>2. Slotted'
  BY DEF Slotted, TypeOK
<1>3. Issued'
  BY DEF Issued, TypeOK, Token, Tokens
<1>4. OneRecord' /\ OneToken'
  BY TokensKept DEF OneRecord
<1>5. ASSUME ~excused' PROVE (Recorded /\ Alone /\ Answered /\ Claims)'
  <2> USE <1>5 DEF Tracked, TypeOK, Token, Tokens
  <2>0. \A r \in Slots : /\ ask[r] = "none" /\ with[r] = NoToken /\ got[r] = NoToken
                         /\ ask'[r] = "none" /\ at'[r] = "idle"
                         /\ with'[r] = NoToken /\ got'[r] = NoToken
    BY DEF Slotted
  <2>1. Recorded'
    <3>1. Held'
      <4>1. /\ \A t \in seats' : t \in {room, store} \/ t \in leaves =>
                                 Known(t)' \/ issued[t] \in given'
        BY DEF Known, Recorded, OneRecord
      <4>2. \A t \in seats' : \A r \in Slots : with[r] = t \/ got[r] = t =>
                                 Known(t)' \/ issued[t] \in given'
        BY <2>0 DEF Known
      <4> QED
        BY HeldKept, <4>1, <4>2 DEF Recorded
    <3>2. GivenUp'
      BY DEF GivenUp, Recorded
    <3> QED
      BY <3>1, <3>2 DEF Recorded, OneRecord
  <2>2. Alone'
    <3>1. \A t, u \in Live : t = u
      BY <2>0 DEF Alone, Opens
    <3> QED
      BY <2>0, <3>1 DEF Alone, Live, Opens
  <2>3. Answered'
    BY <2>0 DEF Answered
  <2>4. Claims'
    BY <2>0 DEF Claims
  <2> QED
    BY <2>1, <2>2, <2>3, <2>4
<1> QED
  BY <1>1, <1>2, <1>3, <1>4, <1>5 DEF Tracked

LEMMA EvictKeeps ==
  ASSUME IInv, Evict
  PROVE  IInv'
<1> USE Bounds DEF IInv, Evict, server, InFlight, Busy, Excuse, Left, Gone, NoToken, NoCode
<1>1. TypeOK'
  BY DEF TypeOK, Token, Tokens
<1>2. Slotted'
  BY DEF Slotted, TypeOK
<1>3. Issued'
  BY DEF Issued, TypeOK, Token, Tokens
<1>4. OneRecord' /\ OneToken'
  BY TokensKept DEF OneRecord
<1>5. ASSUME ~excused' PROVE (Recorded /\ Alone /\ Answered /\ Claims)'
  <2> USE <1>5 DEF Tracked, TypeOK, Token, Tokens
  <2>0. \A r \in Slots : /\ ask[r] = "none" /\ with[r] = NoToken /\ got[r] = NoToken
                         /\ ask'[r] = "none" /\ at'[r] = "idle"
                         /\ with'[r] = NoToken /\ got'[r] = NoToken
    BY DEF Slotted
  <2>1. Recorded'
    <3>1. Held'
      <4>1. /\ \A t \in seats' : t \in {room, store} \/ t \in leaves =>
                                 Known(t)' \/ issued[t] \in given'
        BY DEF Known, Recorded, OneRecord
      <4>2. \A t \in seats' : \A r \in Slots : with[r] = t \/ got[r] = t =>
                                 Known(t)' \/ issued[t] \in given'
        BY <2>0 DEF Known
      <4> QED
        BY HeldKept, <4>1, <4>2 DEF Recorded
    <3>2. GivenUp'
      BY DEF GivenUp, Recorded
    <3> QED
      BY <3>1, <3>2 DEF Recorded, OneRecord
  <2>2. Alone'
    <3>1. \A t, u \in Live : t = u
      BY <2>0 DEF Alone, Opens
    <3> QED
      BY <2>0, <3>1 DEF Alone, Live, Opens
  <2>3. Answered'
    BY <2>0 DEF Answered
  <2>4. Claims'
    BY <2>0 DEF Claims
  <2> QED
    BY <2>1, <2>2, <2>3, <2>4
<1> QED
  BY <1>1, <1>2, <1>3, <1>4, <1>5 DEF Tracked

LEMMA Inductive == IInv /\ [Next]_vars => IInv'
<1> SUFFICES ASSUME IInv, [Next]_vars PROVE IInv'
  OBVIOUS
<1>1. ASSUME NEW s \in Slots, Create(s) \/ \E code \in Codes : Join(s, code) PROVE IInv'
  <2>1. CASE Create(s)
    BY <2>1, ClickKeeps DEF Create
  <2>2. ASSUME NEW code \in Codes, Join(s, code) PROVE IInv'
    <3>1. code # NoCode
      BY Bounds, BoundsAssumption DEF Codes, NoCode
    <3> QED
      BY <2>2, <3>1, ClickKeeps DEF Join
  <2> QED
    BY <1>1, <2>1, <2>2
<1>2. ASSUME NEW s \in Slots, Serve(s) \/ Refuse(s) \/ Lose(s) \/ ServeOrphan(s) PROVE IInv'
  BY <1>2, ServeKeeps, RefuseKeeps, LoseKeeps, ServeOrphanKeeps
<1>3. ASSUME NEW s \in Slots, Accepted(s) \/ Failed(s) PROVE IInv'
  BY <1>3, AcceptedKeeps, FailedKeeps
<1>4. CASE OpenPanel \/ Load \/ Show
  BY <1>4, OpenPanelKeeps, LoadKeeps, ShowKeeps
<1>5. CASE Poll \/ PollFull \/ PollWaits \/ Hide \/ PollGone
  BY <1>5, PollsKeep, PollGoneKeeps
<1>6. ASSUME NEW t \in Tokens, ServeLeave(t) \/ LoseLeave(t) PROVE IInv'
  BY <1>6, ServeLeaveKeeps, LoseLeaveKeeps
<1>7. ASSUME NEW code \in Codes, RoomEnds(code) PROVE IInv'
  BY <1>7, RoomEndsKeeps
<1>8. CASE Leave \/ Unload \/ Evict
  BY <1>8, LeaveKeeps, UnloadKeeps, EvictKeeps
<1>9. CASE UNCHANGED vars
  BY <1>9 DEF vars, tab, polling, call, server, IInv, TypeOK, Slotted, Issued, OneRecord,
              OneToken, Tracked, Recorded, Held, Known, GivenUp, Alone, Opens, Live, Answered,
              Another, Code, Hosts, Claims
<1> QED
  BY <1>1, <1>2, <1>3, <1>4, <1>5, <1>6, <1>7, <1>8, <1>9 DEF Next

LEMMA Invariance == Spec => []IInv
  BY InitIInv, Inductive, PTL DEF Spec

\* The type invariant, for any number of requests, tokens and friends.
THEOREM TypeCorrect == Spec => []TypeOK
<1>1. IInv => TypeOK
  BY DEF IInv
<1> QED
  BY <1>1, Invariance, PTL

\* A seat that the server keeps for this browser is in memory, stored, being
\* left, in a request or given up for another room, but for the known ways to
\* lose track of one.
THEOREM SeatsAreKnown == Spec => []NoOrphan
<1>1. IInv => NoOrphan
  BY DEF IInv, Tracked, Recorded, Held, Known, NoOrphan
<1> QED
  BY <1>1, Invariance, PTL

\* Unless excused, and unless a create or a join is under way, a tab has one
\* seat besides those that it leaves and those that it has given up, and
\* whatever it has stored or in memory and is still valid is that seat.
THEOREM OneSeat ==
  Spec => [](~excused => /\ \A t, u \in (seats \ leaves) : \/ t = u
                                \/ issued[t] \in given \/ issued[u] \in given
                                \/ \E s \in Slots : ask[s] \in {"create", "join"}
                         /\ \A t \in {room, store} \cap seats :
                                t \notin leaves /\ issued[t] \notin given)
<1>1. IInv => (~excused => /\ \A t, u \in (seats \ leaves) : \/ t = u
                                  \/ issued[t] \in given \/ issued[u] \in given
                                  \/ \E s \in Slots : ask[s] \in {"create", "join"}
                           /\ \A t \in {room, store} \cap seats :
                                  t \notin leaves /\ issued[t] \notin given)
  <2> SUFFICES ASSUME IInv, ~excused
               PROVE  /\ \A t, u \in (seats \ leaves) : \/ t = u
                             \/ issued[t] \in given \/ issued[u] \in given
                             \/ \E s \in Slots : ask[s] \in {"create", "join"}
                      /\ \A t \in {room, store} \cap seats :
                             t \notin leaves /\ issued[t] \notin given
    OBVIOUS
  <2> QED
    BY Home DEF IInv, Tracked, Alone, Opens, Live
<1> QED
  BY <1>1, Invariance, PTL
=============================================================================
