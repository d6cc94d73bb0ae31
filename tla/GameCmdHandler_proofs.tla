----------------------- MODULE GameCmdHandler_proofs -----------------------
(***************************************************************************)
(* Proofs about GameCmdHandler: counters stay within their width, the tick *)
(* loop is kept alive, and a game ends once, and no later than it is       *)
(* decided.  The argument is that no player ever fails, so that every end  *)
(* check announces the end (EndCheckAnnounces), with the first base lost,  *)
(* and that at most one of the two checks of an attack is reached          *)
(* (AttackFollows).                                                        *)
(***************************************************************************)
EXTENDS GameCmdHandler, TLAPS

NobodyFailed(rt) == \A p \in DOMAIN rt.players : ~rt.players[p].failure

Sound(rt) == IsRuntime(rt) /\ NobodyFailed(rt)

Owners(rt) == {rt.tiles[t].owner : t \in DOMAIN rt.tiles}

\* No tile passes from board a to board b but to a player who held a stronger
\* one, left with one troop, or to nobody.
Earned(a, b) ==
    \A t \in DOMAIN a :
        b[t].owner # a[t].owner =>
            \/ b[t].owner = NoUser /\ b[t].value = 0
            \/ \E s \in DOMAIN a :
                  a[s].owner = b[t].owner /\ a[s].value > a[t].value /\ b[s].value = 1

\* What a command may do to a runtime.
Follows(rt, new) ==
    /\ Sound(new)
    /\ new.map = rt.map
    /\ DOMAIN new.tiles = DOMAIN rt.tiles
    /\ \A t \in DOMAIN rt.tiles : new.tiles[t].base = rt.tiles[t].base
    /\ Earned(rt.tiles, new.tiles)
    /\ Owners(new) \subseteq Owners(rt) \cup {NoUser}
    /\ DOMAIN rt.players \subseteq DOMAIN new.players
    /\ DOMAIN new.players \subseteq DOMAIN rt.players \cup Owners(rt)
    /\ new.ends \in {rt.ends, rt.ends + 1}
    /\ new.ends = rt.ends =>
          \A t \in DOMAIN rt.tiles : rt.tiles[t].base => new.tiles[t].owner = rt.tiles[t].owner

-----------------------------------------------------------------------------
(* Arithmetic and the helpers of the rules. *)

LEMMA WrapType == ASSUME NEW n \in Int PROVE Wrap(n) \in 0 .. Width - 1
  BY NumbersAssumption DEF Wrap

LEMMA WrapIdentity == ASSUME NEW n \in 0 .. Width - 1 PROVE Wrap(n) = n
  BY NumbersAssumption DEF Wrap

\* While nobody has failed, an end check clears nothing and announces the end.
LEMMA EndCheckAnnounces ==
  ASSUME NEW rt, Sound(rt)
  PROVE  GameEndCheck(rt) = [rt EXCEPT !.ends = @ + 1]
<1>1. Failed(rt) = {}
  BY DEF Sound, NobodyFailed, Failed
<1>2. rt.tiles = [t \in DOMAIN rt.tiles |-> rt.tiles[t]]
  BY DEF Sound, IsRuntime, IsBoard
<1>3. rt = [map |-> rt.map, tiles |-> rt.tiles, players |-> rt.players, ends |-> rt.ends]
  BY DEF Sound, IsRuntime
<1>4. GameEndCheck(rt) =
        [rt EXCEPT !.tiles = [t \in DOMAIN rt.tiles |-> rt.tiles[t]], !.ends = rt.ends + 1]
  BY <1>1, <1>3 DEF GameEndCheck
<1>5. QED
  BY <1>2, <1>3, <1>4

LEMMA EnlistSound ==
  ASSUME NEW rt, Sound(rt), NEW ps, ps \subseteq Users \cup {NoUser}
  PROVE  LET new == Enlist(rt, ps)
         IN  /\ Sound(new)
             /\ new.map = rt.map /\ new.tiles = rt.tiles /\ new.ends = rt.ends
             /\ DOMAIN new.players = DOMAIN rt.players \cup ps
<1> DEFINE joined == [p \in DOMAIN rt.players \cup ps |->
                         IF p \in DOMAIN rt.players THEN rt.players[p] ELSE NewPlayer]
<1>1. Enlist(rt, ps) = [map |-> rt.map, tiles |-> rt.tiles, players |-> joined,
                        ends |-> rt.ends]
  BY DEF Enlist, Sound, IsRuntime
<1>2. NewPlayer \in PlayerRecords /\ ~NewPlayer.failure
  BY NumbersAssumption DEF NewPlayer, PlayerRecords
<1>3. joined \in [DOMAIN rt.players \cup ps -> PlayerRecords]
  BY <1>2 DEF Sound, IsRuntime
<1>4. \A p \in DOMAIN rt.players \cup ps : ~joined[p].failure
  BY <1>2 DEF Sound, NobodyFailed
<1> HIDE DEF joined
<1>5. QED
  BY <1>1, <1>3, <1>4 DEF Sound, IsRuntime, NobodyFailed

LEMMA CountBaseSound ==
  ASSUME NEW rt, Sound(rt), NEW p \in DOMAIN rt.players, NEW n \in Int
  PROVE  LET new == CountBase(rt, p, n)
         IN  /\ Sound(new)
             /\ new.map = rt.map /\ new.tiles = rt.tiles /\ new.ends = rt.ends
             /\ DOMAIN new.players = DOMAIN rt.players
<1> DEFINE counted == [rt.players EXCEPT ![p].baseCount = Wrap(@ + n)]
<1>1. CountBase(rt, p, n) = [map |-> rt.map, tiles |-> rt.tiles, players |-> counted,
                             ends |-> rt.ends]
  BY DEF CountBase, Sound, IsRuntime
<1>2. rt.players \in [DOMAIN rt.players -> PlayerRecords]
  BY DEF Sound, IsRuntime
<1>3. rt.players[p] \in PlayerRecords /\ rt.players[p].baseCount + n \in Int
  BY <1>2 DEF PlayerRecords
<1>4. Wrap(rt.players[p].baseCount + n) \in 0 .. Width - 1
  BY <1>3, WrapType
<1>5. counted \in [DOMAIN rt.players -> PlayerRecords]
  BY <1>2, <1>3, <1>4 DEF PlayerRecords
<1>6. \A q \in DOMAIN rt.players : ~counted[q].failure
  BY <1>2 DEF Sound, NobodyFailed, PlayerRecords
<1> HIDE DEF counted
<1>7. QED
  BY <1>1, <1>5, <1>6 DEF Sound, IsRuntime, NobodyFailed

\* The loss of a base announces the end; nothing else does.
LEMMA LoseBaseSound ==
  ASSUME NEW rt, Sound(rt), NEW t \in DOMAIN rt.tiles, NEW p \in DOMAIN rt.players
  PROVE  LET new == LoseBase(rt, t, p)
         IN  /\ Sound(new)
             /\ new.map = rt.map /\ new.tiles = rt.tiles
             /\ DOMAIN new.players = DOMAIN rt.players
             /\ new.ends = IF rt.tiles[t].base THEN rt.ends + 1 ELSE rt.ends
<1>1. CASE rt.tiles[t].base
  <2> DEFINE counted == CountBase(rt, p, -1)
  <2>1. /\ Sound(counted)
        /\ counted.map = rt.map /\ counted.tiles = rt.tiles /\ counted.ends = rt.ends
        /\ DOMAIN counted.players = DOMAIN rt.players
    BY CountBaseSound
  <2>2. LoseBase(rt, t, p) = GameEndCheck(counted)
    BY <1>1 DEF LoseBase
  <2> HIDE DEF counted
  <2>3. GameEndCheck(counted) = [map |-> counted.map, tiles |-> counted.tiles,
                                 players |-> counted.players, ends |-> counted.ends + 1]
    <3>1. GameEndCheck(counted) = [counted EXCEPT !.ends = @ + 1]
      BY <2>1, EndCheckAnnounces
    <3>2. QED
      BY <3>1, <2>1 DEF Sound, IsRuntime
  <2>4. QED
    BY <1>1, <2>1, <2>2, <2>3 DEF Sound, IsRuntime, NobodyFailed
<1>2. CASE ~rt.tiles[t].base
  BY <1>2 DEF LoseBase
<1>3. QED
  BY <1>1, <1>2

LEMMA RetileSound ==
  ASSUME NEW rt, Sound(rt), NEW b, IsBoard(b)
  PROVE  LET new == [rt EXCEPT !.tiles = b]
         IN  /\ Sound(new)
             /\ new.map = rt.map /\ new.tiles = b
             /\ new.players = rt.players /\ new.ends = rt.ends
<1>1. [rt EXCEPT !.tiles = b] = [map |-> rt.map, tiles |-> b, players |-> rt.players,
                                 ends |-> rt.ends]
  BY DEF Sound, IsRuntime
<1>2. QED
  BY <1>1 DEF Sound, IsRuntime, NobodyFailed

-----------------------------------------------------------------------------
(* Commands. *)

LEMMA BoardFacts ==
  ASSUME NEW rt, Sound(rt), NEW t \in DOMAIN rt.tiles
  PROVE  /\ rt.tiles[t] \in TileRecords
         /\ rt.tiles[t].owner \in Users \cup {NoUser}
         /\ rt.tiles[t].owner \in Owners(rt)
         /\ rt.tiles[t].value \in 0 .. Width - 1
         /\ rt.tiles[t].base \in BOOLEAN /\ rt.tiles[t].countered \in BOOLEAN
  BY DEF Sound, IsRuntime, IsBoard, TileRecords, Owners

\* Counting bases on top of a step of the board.
LEMMA CountBaseFollows ==
  ASSUME NEW rt, NEW new, Follows(rt, new), NEW p \in DOMAIN new.players, NEW n \in Int
  PROVE  Follows(rt, CountBase(new, p, n))
<1> DEFINE counted == CountBase(new, p, n)
<1>1. /\ Sound(counted)
      /\ counted.map = new.map /\ counted.tiles = new.tiles /\ counted.ends = new.ends
      /\ DOMAIN counted.players = DOMAIN new.players
  BY CountBaseSound DEF Follows
<1> HIDE DEF counted
<1>2. Follows(rt, counted)
  BY <1>1 DEF Follows, Owners
<1>3. QED
  BY <1>2 DEF counted

LEMMA GrowFollows ==
  ASSUME NEW rt, Sound(rt), NEW d \in DOMAIN rt.tiles, NEW n \in Int
  PROVE  Follows(rt, Grow(rt, d, n))
<1> DEFINE b == [rt.tiles EXCEPT ![d].value = Wrap(@ + n)]
<1>1. Grow(rt, d, n) = [rt EXCEPT !.tiles = b]
  BY DEF Grow, Sound, IsRuntime
<1>2. Wrap(rt.tiles[d].value + n) \in 0 .. Width - 1
  BY BoardFacts, WrapType
<1>3. /\ IsBoard(b) /\ DOMAIN b = DOMAIN rt.tiles
      /\ \A t \in DOMAIN rt.tiles : b[t].base = rt.tiles[t].base /\ b[t].owner = rt.tiles[t].owner
  BY <1>2, BoardFacts DEF Sound, IsRuntime, IsBoard, TileRecords
<1>4. Earned(rt.tiles, b)
  BY <1>3 DEF Earned
<1> HIDE DEF b
<1>5. QED
  BY <1>1, <1>3, <1>4, RetileSound DEF Follows, Owners

LEMMA MoveFollows ==
  ASSUME NEW rt, Sound(rt), NEW p \in Users,
         NEW s \in DOMAIN rt.tiles, NEW d \in DOMAIN rt.tiles, ValidMove(rt, p, s, d)
  PROVE  Follows(rt, Move(rt, p, s, d))
<1> DEFINE met == Enlist(rt, {p})
           b == [rt.tiles EXCEPT ![s].value = 1]
           moved == [met EXCEPT !.tiles = b]
<1>1. p \in Owners(rt)
  BY BoardFacts DEF ValidMove
<1>2. /\ Sound(met) /\ met.map = rt.map /\ met.tiles = rt.tiles /\ met.ends = rt.ends
      /\ DOMAIN met.players = DOMAIN rt.players \cup {p}
  BY EnlistSound
<1>3. Move(rt, p, s, d) = IF rt.tiles[d].base THEN CountBase(moved, p, 1) ELSE moved
  BY <1>2 DEF Move, Sound, IsRuntime
<1>4. /\ IsBoard(b) /\ DOMAIN b = DOMAIN rt.tiles
      /\ \A t \in DOMAIN rt.tiles : b[t].base = rt.tiles[t].base /\ b[t].owner = rt.tiles[t].owner
  BY BoardFacts, NumbersAssumption DEF Sound, IsRuntime, IsBoard, TileRecords
<1> HIDE DEF met, b
<1>5. /\ Sound(moved) /\ moved.map = rt.map /\ moved.tiles = b
      /\ moved.players = met.players /\ moved.ends = rt.ends
  BY <1>2, <1>4, RetileSound
<1> HIDE DEF moved
<1>6. Earned(rt.tiles, b)
  BY <1>4 DEF Earned
<1>7. Follows(rt, moved)
  BY <1>1, <1>2, <1>4, <1>5, <1>6 DEF Follows, Owners
<1>8. Follows(rt, CountBase(moved, p, 1))
  BY <1>2, <1>5, <1>7, CountBaseFollows
<1>9. QED
  BY <1>3, <1>7, <1>8

\* A tile of the board changes hands and p loses it, if it was a base.
LEMMA LossFollows ==
  ASSUME NEW rt, Sound(rt), NEW b, IsBoard(b), DOMAIN b = DOMAIN rt.tiles,
         NEW t \in DOMAIN rt.tiles, NEW p \in DOMAIN rt.players,
         \A x \in DOMAIN b : b[x].base = rt.tiles[x].base,
         \A x \in DOMAIN b \ {t} : b[x].owner = rt.tiles[x].owner,
         b[t].owner \in Owners(rt) \cup {NoUser}, Earned(rt.tiles, b),
         NEW fought, Sound(fought), fought.map = rt.map, fought.tiles = b,
         DOMAIN fought.players = DOMAIN rt.players, fought.ends = rt.ends
  PROVE  Follows(rt, LoseBase(fought, t, p)) /\ LoseBase(fought, t, p).tiles = b
<1> DEFINE new == LoseBase(fought, t, p)
<1>1. /\ Sound(new)
      /\ new.map = rt.map /\ new.tiles = b
      /\ DOMAIN new.players = DOMAIN rt.players
      /\ new.ends = IF b[t].base THEN rt.ends + 1 ELSE rt.ends
  BY LoseBaseSound
<1>2. rt.ends \in Nat
  BY DEF Sound, IsRuntime
<1>3. Owners(new) \subseteq Owners(rt) \cup {NoUser}
  BY <1>1 DEF Owners
<1> HIDE DEF new
<1>4. ASSUME new.ends = rt.ends
      PROVE  \A x \in DOMAIN rt.tiles : rt.tiles[x].base => new.tiles[x].owner = rt.tiles[x].owner
  <2>1. ~b[t].base
    BY <1>1, <1>2, <1>4
  <2>2. QED
    BY <1>1, <2>1
<1>5. Follows(rt, new)
  BY <1>1, <1>2, <1>3, <1>4 DEF Follows
<1>6. QED
  BY <1>1, <1>5 DEF new

LEMMA WinFollows ==
  ASSUME NEW rt, Sound(rt), NEW s \in DOMAIN rt.tiles, NEW d \in DOMAIN rt.tiles, s # d,
         rt.tiles[s].owner \in DOMAIN rt.players, rt.tiles[d].owner \in DOMAIN rt.players,
         rt.tiles[s].value > rt.tiles[d].value
  PROVE  Follows(rt, Win(rt, s, d))
<1> DEFINE p == rt.tiles[s].owner
           q == rt.tiles[d].owner
           left == Wrap(rt.tiles[d].value - 1 - 1)
           holder == IF left > 0 THEN p ELSE NoUser
           b == [rt.tiles EXCEPT ![s].value = 1, ![d].value = left, ![d].owner = holder]
           fought == [rt EXCEPT !.tiles = b]
           counted == CountBase(fought, p, 1)
<1>1. left \in 0 .. Width - 1
  BY BoardFacts, WrapType
<1> HIDE DEF left
<1>2. holder \in Users \cup {NoUser} /\ holder \in Owners(rt) \cup {NoUser}
  BY BoardFacts
<1>3. Win(rt, s, d) = IF rt.tiles[d].base /\ left > 0
                      THEN LoseBase(counted, d, q) ELSE LoseBase(fought, d, q)
  BY DEF Win, left, Sound, IsRuntime
<1> HIDE DEF holder
<1>4. /\ IsBoard(b) /\ DOMAIN b = DOMAIN rt.tiles
      /\ \A x \in DOMAIN b : b[x].base = rt.tiles[x].base
      /\ \A x \in DOMAIN b \ {d} : b[x].owner = rt.tiles[x].owner
      /\ b[d].owner = holder
      /\ Earned(rt.tiles, b)
  <2>1. /\ b[s] = [owner |-> p, value |-> 1, base |-> rt.tiles[s].base,
                   countered |-> rt.tiles[s].countered]
        /\ b[d] = [owner |-> holder, value |-> left, base |-> rt.tiles[d].base,
                   countered |-> rt.tiles[d].countered]
        /\ \A x \in DOMAIN rt.tiles \ {s, d} : b[x] = rt.tiles[x]
        /\ DOMAIN b = DOMAIN rt.tiles /\ b = [x \in DOMAIN b |-> b[x]]
    <3>1. /\ \A x \in DOMAIN rt.tiles \ {s, d} : b[x] = rt.tiles[x]
          /\ DOMAIN b = DOMAIN rt.tiles /\ b = [x \in DOMAIN b |-> b[x]]
      OBVIOUS
    <3>2. /\ b[s] = [rt.tiles[s] EXCEPT !.value = 1]
          /\ b[d] = [rt.tiles[d] EXCEPT !.value = left, !.owner = holder]
      BY DEF Sound, IsRuntime, IsBoard
    <3> HIDE DEF b
    <3>3. \A x \in DOMAIN rt.tiles :
             rt.tiles[x] = [owner |-> rt.tiles[x].owner, value |-> rt.tiles[x].value,
                            base |-> rt.tiles[x].base, countered |-> rt.tiles[x].countered]
      BY BoardFacts DEF TileRecords
    <3>4. b[s] = [owner |-> p, value |-> 1, base |-> rt.tiles[s].base,
                  countered |-> rt.tiles[s].countered]
      BY <3>2, <3>3
    <3>5. b[d] = [owner |-> holder, value |-> left, base |-> rt.tiles[d].base,
                  countered |-> rt.tiles[d].countered]
      BY <3>2, <3>3
    <3>6. QED
      BY <3>1, <3>4, <3>5
  <2> HIDE DEF b
  <2>2. b[s] \in TileRecords /\ b[d] \in TileRecords
    BY <1>1, <1>2, <2>1, BoardFacts, NumbersAssumption DEF TileRecords
  <2>3. \A x \in DOMAIN b : b[x] \in TileRecords
    BY <2>1, <2>2, BoardFacts
  <2>4. IsBoard(b)
    BY <2>1, <2>3 DEF Sound, IsRuntime, IsBoard
  <2>5. ASSUME b[d].owner # rt.tiles[d].owner
        PROVE  (b[d].owner = NoUser /\ b[d].value = 0) \/ b[d].owner = p
    BY <1>1, <2>1 DEF holder
  <2>6. Earned(rt.tiles, b)
    BY <2>1, <2>5 DEF Earned
  <2>7. QED
    BY <2>1, <2>4, <2>6
<1> HIDE DEF b
<1>5. /\ Sound(fought) /\ fought.map = rt.map /\ fought.tiles = b
      /\ fought.players = rt.players /\ fought.ends = rt.ends
  BY <1>4, RetileSound
<1> HIDE DEF fought
<1>6. /\ Sound(counted) /\ counted.map = rt.map /\ counted.tiles = b
      /\ DOMAIN counted.players = DOMAIN rt.players /\ counted.ends = rt.ends
  BY <1>5, CountBaseSound
<1> HIDE DEF counted
<1>7. Follows(rt, LoseBase(counted, d, q))
  BY <1>2, <1>4, <1>6, LossFollows
<1>8. Follows(rt, LoseBase(fought, d, q))
  BY <1>2, <1>4, <1>5, LossFollows
<1>9. QED
  BY <1>3, <1>7, <1>8

LEMMA CounteredFollows ==
  ASSUME NEW rt, Sound(rt), NEW s \in DOMAIN rt.tiles, NEW d \in DOMAIN rt.tiles, s # d,
         rt.tiles[s].owner \in DOMAIN rt.players
  PROVE  LET new == Countered(rt, s, d)
         IN  /\ Follows(rt, new)
             /\ new.tiles[s].value = 0 /\ new.tiles[d].value = rt.tiles[d].value
<1> DEFINE b == [rt.tiles EXCEPT ![d].countered = TRUE,
                                 ![s].value = 0, ![s].owner = NoUser]
           fought == [rt EXCEPT !.tiles = b]
<1>1. Countered(rt, s, d) = LoseBase(fought, s, rt.tiles[s].owner)
  BY DEF Countered, Sound, IsRuntime
<1>2. /\ IsBoard(b) /\ DOMAIN b = DOMAIN rt.tiles
      /\ \A x \in DOMAIN b : b[x].base = rt.tiles[x].base
      /\ \A x \in DOMAIN b \ {s} : b[x].owner = rt.tiles[x].owner
      /\ b[s].owner = NoUser /\ b[s].value = 0 /\ b[d].value = rt.tiles[d].value
      /\ Earned(rt.tiles, b)
  <2>1. /\ b[s] = [owner |-> NoUser, value |-> 0, base |-> rt.tiles[s].base,
                   countered |-> rt.tiles[s].countered]
        /\ b[d] = [owner |-> rt.tiles[d].owner, value |-> rt.tiles[d].value,
                   base |-> rt.tiles[d].base, countered |-> TRUE]
        /\ \A x \in DOMAIN rt.tiles \ {s, d} : b[x] = rt.tiles[x]
        /\ DOMAIN b = DOMAIN rt.tiles /\ b = [x \in DOMAIN b |-> b[x]]
    BY BoardFacts DEF TileRecords
  <2> HIDE DEF b
  <2>2. b[s] \in TileRecords /\ b[d] \in TileRecords
    BY <2>1, BoardFacts, NumbersAssumption DEF TileRecords
  <2>3. \A x \in DOMAIN b : b[x] \in TileRecords
    BY <2>1, <2>2, BoardFacts
  <2>4. IsBoard(b)
    BY <2>1, <2>3 DEF Sound, IsRuntime, IsBoard
  <2>5. Earned(rt.tiles, b)
    BY <2>1 DEF Earned
  <2>6. QED
    BY <2>1, <2>4, <2>5
<1> HIDE DEF b
<1>3. /\ Sound(fought) /\ fought.map = rt.map /\ fought.tiles = b
      /\ fought.players = rt.players /\ fought.ends = rt.ends
  BY <1>2, RetileSound
<1> HIDE DEF fought
<1>4. QED
  BY <1>1, <1>2, <1>3, LossFollows

LEMMA ExchangeFollows ==
  ASSUME NEW rt, Sound(rt), NEW s \in DOMAIN rt.tiles, NEW d \in DOMAIN rt.tiles,
         NEW q \in DOMAIN rt.players
  PROVE  Follows(rt, Exchange(rt, s, d, q))
<1> DEFINE left == Wrap(rt.tiles[d].value - rt.tiles[s].value)
           b == [rt.tiles EXCEPT ![d].value = left]
           lost == [rt.tiles EXCEPT ![d].value = left, ![d].owner = NoUser]
           fought == [rt EXCEPT !.tiles = b]
           gone == [rt EXCEPT !.tiles = lost]
<1>1. left \in 0 .. Width - 1
  BY BoardFacts, WrapType
<1>2. Exchange(rt, s, d, q) = IF left = 0 THEN LoseBase(gone, d, q) ELSE fought
  BY <1>1 DEF Exchange, Sound, IsRuntime, IsBoard, TileRecords
<1> HIDE DEF left
<1>3. /\ IsBoard(b) /\ DOMAIN b = DOMAIN rt.tiles
      /\ \A x \in DOMAIN b : b[x].base = rt.tiles[x].base /\ b[x].owner = rt.tiles[x].owner
      /\ Earned(rt.tiles, b)
  <2>1. /\ IsBoard(b) /\ DOMAIN b = DOMAIN rt.tiles
        /\ \A x \in DOMAIN b : b[x].base = rt.tiles[x].base /\ b[x].owner = rt.tiles[x].owner
    BY <1>1, BoardFacts DEF Sound, IsRuntime, IsBoard, TileRecords
  <2>2. QED
    BY <2>1 DEF Earned
<1>4. /\ IsBoard(lost) /\ DOMAIN lost = DOMAIN rt.tiles
      /\ \A x \in DOMAIN lost : lost[x].base = rt.tiles[x].base
      /\ \A x \in DOMAIN lost \ {d} : lost[x].owner = rt.tiles[x].owner
      /\ lost[d].owner = NoUser
      /\ left = 0 => Earned(rt.tiles, lost)
  <2>1. /\ lost[d] = [owner |-> NoUser, value |-> left, base |-> rt.tiles[d].base,
                      countered |-> rt.tiles[d].countered]
        /\ \A x \in DOMAIN rt.tiles \ {d} : lost[x] = rt.tiles[x]
        /\ DOMAIN lost = DOMAIN rt.tiles /\ lost = [x \in DOMAIN lost |-> lost[x]]
    BY BoardFacts DEF TileRecords
  <2> HIDE DEF lost
  <2>2. lost[d] \in TileRecords
    BY <1>1, <2>1, BoardFacts DEF TileRecords
  <2>3. \A x \in DOMAIN lost : lost[x] \in TileRecords
    BY <2>1, <2>2, BoardFacts
  <2>4. IsBoard(lost)
    BY <2>1, <2>3 DEF Sound, IsRuntime, IsBoard
  <2>5. left = 0 => Earned(rt.tiles, lost)
    BY <2>1 DEF Earned
  <2>6. QED
    BY <2>1, <2>4, <2>5
<1> HIDE DEF b, lost
<1>5. Follows(rt, fought)
  BY <1>3, RetileSound DEF Follows, Owners
<1>6. /\ Sound(gone) /\ gone.map = rt.map /\ gone.tiles = lost
      /\ gone.players = rt.players /\ gone.ends = rt.ends
  BY <1>4, RetileSound
<1> HIDE DEF gone
<1>7. left = 0 => Follows(rt, LoseBase(gone, d, q))
  BY <1>4, <1>6, LossFollows
<1>8. QED
  BY <1>2, <1>5, <1>7

\* Nothing is left of the attacker: the exchange changes nothing.
LEMMA ExchangeNothing ==
  ASSUME NEW rt, Sound(rt), NEW s \in DOMAIN rt.tiles, NEW d \in DOMAIN rt.tiles, NEW q,
         rt.tiles[s].value = 0, rt.tiles[d].value # 0
  PROVE  Exchange(rt, s, d, q) = rt
<1>1. Wrap(rt.tiles[d].value - 0) = rt.tiles[d].value
  BY BoardFacts, WrapIdentity, NumbersAssumption
<1> DEFINE b == [rt.tiles EXCEPT ![d].value = Wrap(@ - rt.tiles[s].value)]
<1>2. b = rt.tiles
  BY <1>1, BoardFacts DEF Sound, IsRuntime, IsBoard, TileRecords
<1>3. [rt EXCEPT !.tiles = b] = rt
  BY <1>2 DEF Sound, IsRuntime
<1>4. [rt EXCEPT !.tiles[d].value = Wrap(@ - rt.tiles[s].value)] = [rt EXCEPT !.tiles = b]
  BY DEF Sound, IsRuntime
<1>5. QED
  BY <1>3, <1>4 DEF Exchange

\* What follows from the runtime with newly enlisted owners follows from the
\* one before.
LEMMA EnlistFollows ==
  ASSUME NEW rt, Sound(rt), NEW ps, ps \subseteq Owners(rt), ps \subseteq Users \cup {NoUser},
         NEW new, Follows(Enlist(rt, ps), new)
  PROVE  Follows(rt, new)
<1> DEFINE met == Enlist(rt, ps)
<1>1. /\ Sound(met) /\ met.map = rt.map /\ met.tiles = rt.tiles /\ met.ends = rt.ends
      /\ DOMAIN met.players = DOMAIN rt.players \cup ps
  BY EnlistSound
<1>2. Follows(met, new)
  OBVIOUS
<1> HIDE DEF met
<1>3. Owners(met) = Owners(rt) /\ Earned(rt.tiles, new.tiles)
  BY <1>1, <1>2 DEF Follows, Owners
<1>4. QED
  BY <1>1, <1>2, <1>3 DEF Follows

\* At most one of the end checks of an attack is reached: a defender that
\* answers is at least as strong as its attacker, so it does not fall to the
\* troops that are left of it.
LEMMA AttackFollows ==
  ASSUME NEW rt, Sound(rt), NEW p \in Users,
         NEW s \in DOMAIN rt.tiles, NEW d \in DOMAIN rt.tiles, ValidAttack(rt, p, s, d)
  PROVE  Follows(rt, Attack(rt, s, d))
<1> DEFINE q == rt.tiles[d].owner
           ps == {rt.tiles[s].owner, q}
           met == Enlist(rt, ps)
<1>1. ps \subseteq Owners(rt) /\ ps \subseteq Users \cup {NoUser}
  BY BoardFacts
<1>2. /\ Sound(met) /\ met.map = rt.map /\ met.tiles = rt.tiles /\ met.ends = rt.ends
      /\ DOMAIN met.players = DOMAIN rt.players \cup ps
  BY <1>1, EnlistSound
<1>3. SUFFICES Follows(met, Attack(rt, s, d))
  <2>1. Follows(Enlist(rt, ps), Attack(rt, s, d))
    BY DEF met
  <2> HIDE DEF ps
  <2>2. QED
    BY <1>1, <2>1, EnlistFollows
<1>4. s # d /\ rt.tiles[s].value > 1
  BY DEF ValidAttack
<1>5. CASE rt.tiles[s].value > rt.tiles[d].value
  <2>1. Attack(rt, s, d) = Win(met, s, d)
    BY <1>5 DEF Attack
  <2> HIDE DEF met
  <2>2. Follows(met, Win(met, s, d))
    <3>1. met.tiles[s].value > met.tiles[d].value
      BY <1>2, <1>5
    <3>2. met.tiles[s].owner \in DOMAIN met.players /\ met.tiles[d].owner \in DOMAIN met.players
      BY <1>2
    <3>3. QED
      BY <1>2, <1>4, <3>1, <3>2, WinFollows
  <2>3. QED
    BY <2>1, <2>2
<1>6. CASE ~(rt.tiles[s].value > rt.tiles[d].value)
  <2> DEFINE answered == Countered(met, s, d)
  <2>1. Attack(rt, s, d) = Exchange(IF rt.tiles[d].countered THEN met ELSE answered, s, d, q)
    BY <1>6 DEF Attack
  <2> HIDE DEF met
  <2>2. CASE rt.tiles[d].countered
    BY <1>2, <2>1, <2>2, ExchangeFollows
  <2>3. CASE ~rt.tiles[d].countered
    <3>1. /\ Follows(met, answered)
          /\ answered.tiles[s].value = 0 /\ answered.tiles[d].value = rt.tiles[d].value
      BY <1>2, <1>4, CounteredFollows
    <3> HIDE DEF answered
    <3>2. Sound(answered) /\ DOMAIN answered.tiles = DOMAIN rt.tiles
      BY <1>2, <3>1 DEF Follows
    <3>3. rt.tiles[d].value # 0
      BY <1>4, <1>6, BoardFacts
    <3>4. Exchange(answered, s, d, q) = answered
      BY <3>1, <3>2, <3>3, ExchangeNothing
    <3>5. QED
      BY <2>1, <2>3, <3>1, <3>4
  <2>4. QED
    BY <2>2, <2>3
<1>7. QED
  BY <1>5, <1>6

-----------------------------------------------------------------------------
(* The inductive invariant. *)

MapOwners == {MapTiles[runtime.map][t].owner : t \in DOMAIN MapTiles[runtime.map]}

\* A running game is played on the map's board, on all its bases, by the
\* owners the map and the roster name, and its end was not announced.
PlaysMap ==
    /\ runtime.map \in LoadableMaps
    /\ DOMAIN runtime.tiles = DOMAIN MapTiles[runtime.map]
    /\ \A t \in DOMAIN runtime.tiles :
          /\ runtime.tiles[t].base = MapTiles[runtime.map][t].base
          /\ runtime.tiles[t].base => runtime.tiles[t].owner = MapTiles[runtime.map][t].owner
    /\ Owners(runtime) \subseteq MapOwners \cup {NoUser}
    /\ roster \subseteq DOMAIN runtime.players
    /\ DOMAIN runtime.players \subseteq roster \cup {NoUser} \cup MapOwners
    /\ runtime.ends = 0

Inv ==
    /\ TypeOK
    /\ NobodyFailed(runtime)
    /\ TickLoopAlive
    /\ ticking <=> room = "RUNNING"
    /\ runtime.ends <= 1
    /\ room = "RUNNING" => PlaysMap

LEMMA InitInv == Init => Inv
<1> SUFFICES ASSUME Init PROVE Inv
  OBVIOUS
<1>1. IsRuntime(runtime) /\ NobodyFailed(runtime) /\ runtime.ends = 0
  BY DEF Init, IsRuntime, IsBoard, NobodyFailed
<1>2. 0 \in 0 .. TickSpace - 1 /\ 0 \in 0 .. GameLimit /\ 0 \in 0 .. CmdLimit
  BY NumbersAssumption
<1>3. callbacks \in Seq({"fired", "aborted"})
  BY DEF Init
<1>4. TypeOK
  BY <1>1, <1>2, <1>3 DEF Init, TypeOK
<1>5. QED
  BY <1>1, <1>4 DEF Init, Inv, TickLoopAlive

LEMMA AppendElements ==
  ASSUME NEW S, NEW q \in Seq(S), NEW e \in S
  PROVE  Append(q, e) \in Seq(S) /\ ToSet(q) \cup {e} \subseteq ToSet(Append(q, e))
<1>1. /\ Append(q, e) \in Seq(S) /\ Len(Append(q, e)) = Len(q) + 1
      /\ Append(q, e)[Len(q) + 1] = e
      /\ \A i \in 1 .. Len(q) : Append(q, e)[i] = q[i]
  OBVIOUS
<1>2. DOMAIN q = 1 .. Len(q) /\ DOMAIN Append(q, e) = 1 .. Len(q) + 1 /\ Len(q) \in Nat
  BY <1>1
<1>3. \A i \in DOMAIN q : i \in DOMAIN Append(q, e) /\ Append(q, e)[i] = q[i]
  BY <1>1, <1>2
<1>4. Len(q) + 1 \in DOMAIN Append(q, e)
  BY <1>2
<1>5. QED
  BY <1>1, <1>3, <1>4 DEF ToSet

LEMMA TailElements ==
  ASSUME NEW S, NEW q \in Seq(S), q # <<>>
  PROVE  Tail(q) \in Seq(S) /\ ToSet(q) \subseteq ToSet(Tail(q)) \cup {Head(q)}
<1>1. /\ Tail(q) \in Seq(S) /\ Len(Tail(q)) = Len(q) - 1 /\ Head(q) = q[1]
      /\ \A i \in 1 .. Len(q) - 1 : Tail(q)[i] = q[i + 1]
  OBVIOUS
<1>2. DOMAIN q = 1 .. Len(q) /\ DOMAIN Tail(q) = 1 .. Len(q) - 1 /\ Len(q) \in Nat
  BY <1>1
<1>3. ASSUME NEW i \in DOMAIN q, i # 1
      PROVE  i - 1 \in DOMAIN Tail(q) /\ Tail(q)[i - 1] = q[i]
  <2>1. i \in Int /\ i - 1 \in 1 .. Len(q) - 1 /\ (i - 1) + 1 = i
    BY <1>2, <1>3
  <2>2. Tail(q)[i - 1] = q[(i - 1) + 1]
    BY <1>1, <2>1
  <2>3. QED
    BY <1>2, <2>1, <2>2
<1>4. QED
  BY <1>1, <1>3 DEF ToSet

\* The completed waits stay a sequence, and none of them is lost.
LEMMA CancelledType ==
  ASSUME TypeOK
  PROVE  /\ Cancelled \in Seq({"fired", "aborted"})
         /\ ToSet(callbacks) \subseteq ToSet(Cancelled)
<1>1. /\ Append(callbacks, "aborted") \in Seq({"fired", "aborted"})
      /\ ToSet(callbacks) \subseteq ToSet(Append(callbacks, "aborted"))
  BY AppendElements DEF TypeOK
<1>2. QED
  BY <1>1 DEF Cancelled, TypeOK

LEMMA ExpireInv == Inv /\ Expire => Inv'
<1> SUFFICES ASSUME Inv, Expire PROVE Inv'
  OBVIOUS
<1>1. /\ callbacks' \in Seq({"fired", "aborted"})
      /\ "fired" \in ToSet(callbacks')
  BY AppendElements DEF Inv, TypeOK, Expire
<1>2. armed' = FALSE /\ UNCHANGED <<room, runtime, roster, games, cmds, ticking, tick, busy>>
  BY DEF Expire, battle
<1>3. TypeOK'
  BY <1>1, <1>2 DEF Inv, TypeOK
<1>4. TickLoopAlive'
  BY <1>1 DEF TickLoopAlive
<1>5. QED
  BY <1>2, <1>3, <1>4 DEF Inv, NobodyFailed, PlaysMap, MapOwners, Owners

LEMMA OnWaitInv == Inv /\ OnWait => Inv'
<1> SUFFICES ASSUME Inv, OnWait PROVE Inv'
  OBVIOUS
<1>1. /\ callbacks' \in Seq({"fired", "aborted"})
      /\ ToSet(callbacks) \subseteq ToSet(callbacks') \cup {Head(callbacks)}
  BY TailElements DEF Inv, TypeOK, OnWait
<1>2. UNCHANGED <<room, runtime, roster, games, cmds, ticking, armed>>
  BY DEF OnWait, battle
<1>3. busy' \in BOOLEAN /\ tick' \in 0 .. TickSpace - 1
  <2>1. CASE Head(callbacks) = "aborted" \/ ~ticking
    BY <2>1 DEF OnWait, Inv, TypeOK
  <2>2. CASE ~(Head(callbacks) = "aborted" \/ ~ticking)
    BY <2>2, NumbersAssumption DEF OnWait, Inv, TypeOK
  <2>3. QED
    BY <2>1, <2>2
<1>4. TypeOK'
  BY <1>1, <1>2, <1>3 DEF Inv, TypeOK
<1>5. TickLoopAlive'
  BY <1>1, <1>2 DEF Inv, TickLoopAlive, OnWait
<1>6. QED
  BY <1>2, <1>4, <1>5 DEF Inv, NobodyFailed, PlaysMap, MapOwners, Owners

LEMMA ScheduleNextTickInv == Inv /\ ScheduleNextTick => Inv'
<1> SUFFICES ASSUME Inv, ScheduleNextTick PROVE Inv'
  OBVIOUS
<1> USE DEF Inv, ScheduleNextTick, Schedule, battle
<1>1. TypeOK'
  BY CancelledType DEF TypeOK
<1>2. TickLoopAlive'
  BY DEF TickLoopAlive
<1>3. (room = "RUNNING" => PlaysMap)'
  BY DEF PlaysMap, MapOwners, Owners
<1>4. QED
  BY <1>1, <1>2, <1>3

LEMMA PlayInv ==
  ASSUME Inv, room = "RUNNING", cmds < CmdLimit, NEW rt, Follows(runtime, rt), Play(rt)
  PROVE  Inv'
<1>1. /\ runtime' = rt /\ roster' = roster /\ games' = games /\ tick' = tick /\ busy' = busy
      /\ cmds' = cmds + 1
  BY DEF Play
<1>2. Sound(rt) /\ PlaysMap /\ TypeOK /\ rt.ends \in {0, 1}
  BY DEF Inv, Follows, PlaysMap
<1>3. CASE rt.ends > runtime.ends
  <2>1. room' = "LOBBY" /\ ticking' = FALSE /\ armed' = FALSE /\ callbacks' = Cancelled
    BY <1>3 DEF Play, OnGameEnd, StopTicking
  <2>2. TypeOK'
    <3>1. callbacks' \in Seq({"fired", "aborted"})
      BY <1>2, <2>1, CancelledType
    <3>2. cmds' \in 0 .. CmdLimit
      BY <1>1, <1>2, NumbersAssumption DEF TypeOK
    <3>3. QED
      BY <1>1, <1>2, <2>1, <3>1, <3>2 DEF TypeOK, Sound
  <2>3. QED
    BY <1>1, <1>2, <2>1, <2>2 DEF Inv, TickLoopAlive, Sound, NobodyFailed
<1>4. CASE ~(rt.ends > runtime.ends)
  <2>1. UNCHANGED <<room, ticking, armed, callbacks>>
    BY <1>4 DEF Play, timer
  <2>2. rt.ends = 0 /\ rt.ends = runtime.ends
    BY <1>2, <1>4 DEF PlaysMap
  <2>3. TypeOK'
    BY <1>1, <1>2, <2>1, NumbersAssumption DEF TypeOK, Sound
  <2>4. PlaysMap'
    <3>1. /\ rt.map = runtime.map /\ DOMAIN rt.tiles = DOMAIN runtime.tiles
          /\ \A t \in DOMAIN runtime.tiles :
                /\ rt.tiles[t].base = runtime.tiles[t].base
                /\ runtime.tiles[t].base => rt.tiles[t].owner = runtime.tiles[t].owner
          /\ Owners(rt) \subseteq Owners(runtime) \cup {NoUser}
          /\ DOMAIN runtime.players \subseteq DOMAIN rt.players
          /\ DOMAIN rt.players \subseteq DOMAIN runtime.players \cup Owners(runtime)
      BY <2>2 DEF Follows
    <3>2. Owners(runtime)' = Owners(rt) /\ MapOwners' = MapOwners
      BY <1>1, <3>1 DEF Owners, MapOwners
    <3>3. QED
      BY <1>1, <1>2, <2>2, <3>1, <3>2 DEF PlaysMap
  <2>5. QED
    BY <1>1, <1>2, <2>1, <2>2, <2>3, <2>4 DEF Inv, TickLoopAlive, Sound, NobodyFailed
<1>5. QED
  BY <1>3, <1>4

\* A command leads to a runtime that follows from the one before.
LEMMA CommandFollows ==
  ASSUME Inv, NEW p \in roster, ProcessCommand(p)
  PROVE  Follows(runtime, runtime') /\ \E rt : rt = runtime' /\ Play(rt)
<1>1. Sound(runtime) /\ p \in Users
  BY DEF Inv, TypeOK, Sound
<1>2. PICK d \in DOMAIN runtime.tiles :
          \/ \E s \in DOMAIN runtime.tiles :
                \/ ValidMove(runtime, p, s, d) /\ Play(Move(runtime, p, s, d))
                \/ ValidAttack(runtime, p, s, d) /\ Play(Attack(runtime, s, d))
          \/ ValidGrow(runtime, p, d) /\ \E n \in Growths : Play(Grow(runtime, d, n))
  BY DEF ProcessCommand
<1>3. ASSUME NEW rt, Follows(runtime, rt), Play(rt)
      PROVE  Follows(runtime, runtime') /\ \E new : new = runtime' /\ Play(new)
  <2>1. runtime' = rt
    BY <1>3 DEF Play
  <2>2. QED
    BY <1>3, <2>1
<1>4. ASSUME NEW s \in DOMAIN runtime.tiles,
             ValidMove(runtime, p, s, d), Play(Move(runtime, p, s, d))
      PROVE  \E rt : Follows(runtime, rt) /\ Play(rt)
  BY <1>1, <1>4, MoveFollows
<1>5. ASSUME NEW s \in DOMAIN runtime.tiles,
             ValidAttack(runtime, p, s, d), Play(Attack(runtime, s, d))
      PROVE  \E rt : Follows(runtime, rt) /\ Play(rt)
  BY <1>1, <1>5, AttackFollows
<1>6. ASSUME NEW n \in Growths, Play(Grow(runtime, d, n))
      PROVE  \E rt : Follows(runtime, rt) /\ Play(rt)
  BY <1>1, <1>6, GrowFollows, NumbersAssumption
<1>7. QED
  BY <1>2, <1>3, <1>4, <1>5, <1>6

LEMMA ProcessCommandInv ==
  ASSUME Inv, NEW p \in roster, ProcessCommand(p)
  PROVE  Inv'
<1>1. PICK rt : Follows(runtime, rt) /\ Play(rt)
  BY CommandFollows
<1>2. QED
  BY <1>1, PlayInv DEF ProcessCommand

\* The board, the players and the announcements of a new game.
LEMMA StartGameInv ==
  ASSUME Inv, NEW members \in SUBSET Users, NEW m \in Maps, StartGame(members, m)
  PROVE  Inv'
<1> DEFINE nobody == [p \in {} |-> NewPlayer]
           joined == [p \in members |-> NewPlayer]
<1>1. /\ TypeOK /\ IsRuntime(runtime) /\ room = "LOBBY" /\ ~ticking /\ runtime.ends <= 1
      /\ games' = games + 1 /\ games < GameLimit /\ busy' = busy
  BY DEF Inv, TypeOK, StartGame
<1>2. games' \in 0 .. GameLimit
  BY <1>1, NumbersAssumption DEF TypeOK
<1>3. NewPlayer \in PlayerRecords /\ ~NewPlayer.failure
  BY NumbersAssumption DEF NewPlayer, PlayerRecords
<1>4. CASE m \in LoadableMaps
  <2>1. runtime' = [map |-> m, tiles |-> MapTiles[m], players |-> joined, ends |-> 0]
    <3> DEFINE cleared == [InitGameState(runtime) EXCEPT !.map = m]
               given == [p \in DOMAIN cleared.players \cup members |->
                            IF p \in members THEN NewPlayer ELSE cleared.players[p]]
    <3>1. cleared = [map |-> m, tiles |-> runtime.tiles, players |-> nobody,
                     ends |-> runtime.ends]
      <4>1. runtime = [map |-> runtime.map, tiles |-> runtime.tiles,
                       players |-> runtime.players, ends |-> runtime.ends]
        BY <1>1 DEF IsRuntime
      <4>2. InitGameState(runtime) = [map |-> runtime.map, tiles |-> runtime.tiles,
                                      players |-> nobody, ends |-> runtime.ends]
        BY <4>1 DEF InitGameState
      <4>3. QED
        BY <4>2
    <3>2. runtime' = [cleared EXCEPT !.tiles = MapTiles[m], !.ends = 0, !.players = given]
      BY <1>4 DEF StartGame
    <3> HIDE DEF cleared
    <3>3. DOMAIN cleared.players = {}
      BY <3>1
    <3>4. given = joined
      BY <3>3
    <3>5. QED
      BY <3>1, <3>2, <3>4
  <2>2. /\ roster' = members /\ tick' = 0 /\ cmds' = 0 /\ room' = "RUNNING"
        /\ ticking' = TRUE /\ armed' = TRUE /\ callbacks' = Cancelled
    BY <1>1, <1>4 DEF StartGame, StartTicking, Schedule
  <2>3. IsBoard(MapTiles[m])
    BY <1>4, MapTilesAssumption
  <2>4. joined \in [members -> PlayerRecords] /\ NobodyFailed(runtime')
    BY <1>3, <2>1 DEF NobodyFailed
  <2>5. IsRuntime(runtime')
    BY <2>1, <2>3, <2>4 DEF IsRuntime
  <2>6. TypeOK'
    BY <1>1, <1>2, <2>2, <2>5, CancelledType, NumbersAssumption DEF TypeOK
  <2>7. PlaysMap'
    BY <1>4, <2>1, <2>2 DEF PlaysMap, Owners, MapOwners
  <2>8. QED
    BY <2>1, <2>2, <2>4, <2>6, <2>7 DEF Inv, TickLoopAlive
<1>5. CASE m \notin LoadableMaps
  <2>1. runtime' = [map |-> m, tiles |-> runtime.tiles, players |-> nobody,
                    ends |-> runtime.ends]
    BY <1>1, <1>5 DEF StartGame, InitGameState, IsRuntime
  <2>2. UNCHANGED <<room, roster, tick, cmds, ticking, armed, callbacks>>
    BY <1>1, <1>5 DEF StartGame, timer
  <2>3. NobodyFailed(runtime') /\ IsRuntime(runtime')
    BY <1>1, <2>1 DEF NobodyFailed, IsRuntime
  <2>4. TypeOK'
    BY <1>1, <1>2, <2>2, <2>3 DEF TypeOK
  <2>5. QED
    BY <1>1, <2>1, <2>2, <2>3, <2>4 DEF Inv, TickLoopAlive
<1>6. QED
  BY <1>4, <1>5

LEMMA InvInductive == Inv /\ [Next]_vars => Inv'
<1> SUFFICES ASSUME Inv, [Next]_vars PROVE Inv'
  OBVIOUS
<1>1. ASSUME NEW members \in SUBSET Users, NEW m \in Maps, StartGame(members, m)
      PROVE  Inv'
  BY <1>1, StartGameInv
<1>2. ASSUME NEW p \in roster, ProcessCommand(p)
      PROVE  Inv'
  BY <1>2, ProcessCommandInv
<1>3. CASE Expire
  BY <1>3, ExpireInv
<1>4. CASE OnWait
  BY <1>4, OnWaitInv
<1>5. CASE ScheduleNextTick
  BY <1>5, ScheduleNextTickInv
<1>6. CASE UNCHANGED vars
  BY <1>6 DEF Inv, vars, battle, timer, TypeOK, NobodyFailed, TickLoopAlive, PlaysMap,
              MapOwners, Owners
<1>7. QED
  BY <1>1, <1>2, <1>3, <1>4, <1>5, <1>6 DEF Next

LEMMA InvAlways == Spec => []Inv
  BY InitInv, InvInductive, PTL DEF Spec

-----------------------------------------------------------------------------
(* Results. *)

\* Counters stay within their width, boards on the board, callbacks in order.
THEOREM TypeCorrect == Spec => []TypeOK
<1>1. Inv => TypeOK
  BY DEF Inv
<1>2. QED
  BY <1>1, InvAlways, PTL

\* However the room stops and restarts the loop around its completed and
\* half handled waits, a loop that is on is continued by something.
THEOREM LoopAlive == Spec => []TickLoopAlive
<1>1. Inv => TickLoopAlive
  BY DEF Inv
<1>2. QED
  BY <1>1, InvAlways, PTL

\* On any board, no game goes on once all but one of the players that had a
\* base have lost theirs.  It holds because a game ends with the first base
\* that changes hands or falls to nobody, so every base is with its first owner.
THEOREM DecidedEnd == Spec => []DecidedGamesEnd
<1>1. Inv => DecidedGamesEnd
  <2> SUFFICES ASSUME PlaysMap
               PROVE  BaseHolders(runtime.tiles) = BaseHolders(MapTiles[runtime.map])
    BY DEF Inv, DecidedGamesEnd
  <2>1. QED
    BY DEF PlaysMap, BaseHolders
<1>2. QED
  BY <1>1, InvAlways, PTL

\* No attack announces the end twice, and no game goes on after it.
THEOREM EndsOnce == Spec => []EndAnnouncedOnce
<1>1. Inv => EndAnnouncedOnce
  BY DEF Inv, PlaysMap, EndAnnouncedOnce
<1>2. QED
  BY <1>1, InvAlways, PTL

\* Nobody is left in a battle from an earlier game of the room.
THEOREM PlayersFresh == Spec => []NoStalePlayers
<1>1. Inv => NoStalePlayers
  BY DEF Inv, PlaysMap, MapOwners, NoStalePlayers
<1>2. QED
  BY <1>1, InvAlways, PTL

\* A tile is taken only by a player who held a stronger one and spent it, or
\* falls empty to nobody.
THEOREM TilesEarned == Spec => TilesAreEarned
<1> DEFINE Passes ==
      games' = games =>
        \A t \in DOMAIN runtime.tiles :
            LET old == runtime.tiles[t]
                new == runtime'.tiles[t]
            IN  new.owner # old.owner =>
                    \/ new.owner = NoUser /\ new.value = 0
                    \/ \E s \in DOMAIN runtime.tiles :
                          /\ runtime.tiles[s].owner = new.owner
                          /\ runtime.tiles[s].value > old.value
                          /\ runtime'.tiles[s].value = 1
<1>1. Earned(runtime.tiles, runtime'.tiles) => Passes
  BY DEF Earned
<1>2. ASSUME Inv, Next, games' = games
      PROVE  runtime' = runtime \/ Follows(runtime, runtime')
  <2>1. ~\E members \in SUBSET Users, m \in Maps : StartGame(members, m)
    <3>1. games \in Nat /\ games' # games + 1
      BY <1>2, NumbersAssumption DEF Inv, TypeOK
    <3>2. QED
      BY <3>1 DEF StartGame
  <2>2. (Expire \/ OnWait \/ ScheduleNextTick) => runtime' = runtime
    BY DEF Expire, OnWait, ScheduleNextTick, battle
  <2>3. ASSUME NEW p \in roster, ProcessCommand(p)
        PROVE  Follows(runtime, runtime')
    BY <1>2, <2>3, CommandFollows
  <2>4. QED
    BY <1>2, <2>1, <2>2, <2>3 DEF Next
<1>3. runtime' = runtime => Passes
  OBVIOUS
<1>4. Inv /\ [Next]_vars => [Passes]_vars
  <2>1. Follows(runtime, runtime') => Passes
    BY <1>1 DEF Follows
  <2>2. QED
    BY <1>2, <1>3, <2>1
<1>5. TilesAreEarned <=> [][Passes]_vars
  BY DEF TilesAreEarned
<1> HIDE DEF Passes
<1>6. QED
  BY <1>4, <1>5, InvAlways, PTL DEF Spec
=============================================================================
