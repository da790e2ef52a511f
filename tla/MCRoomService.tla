---------------------------- MODULE MCRoomService ----------------------------
EXTENDS RoomService, TLC
\* Codes, games, players with an id and players without are interchangeable.
Symmetry == Permutations(Codes) \cup Permutations(Games)
            \cup Permutations(Players \ Anonymous) \cup Permutations(Anonymous)
=============================================================================
