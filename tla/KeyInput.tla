------------------------------ MODULE KeyInput ------------------------------
(***************************************************************************)
(* Keyboard and mouse events: the key fifo of mp_fifo.c, which the window  *)
(* and terminal drivers fill, and the key half of input/input.c, which     *)
(* takes one event per read_events, tracks the combination that is held    *)
(* down and repeats its command.                                           *)
(*                                                                         *)
(* A key code is a record of its key and of the two flags MP_KEY_DOWN and  *)
(* MP_KEY_RELEASE_ALL.  The fifo is the sequence of its stored codes (its  *)
(* two free-running counters appear only as its length).  A command is     *)
(* the key combination it is bound to.  Timers are not modelled: whether a *)
(* delay has elapsed is a choice.                                          *)
(***************************************************************************)
EXTENDS Integers, Sequences

CONSTANTS
  FifoSizes,    \* values of the key-fifo-size option, which takes 2 .. 65000
  MaxKeyDown,   \* MP_MAX_KEY_DOWN, 8
  EventKeys,    \* keys of drivers that send a push and a release event
  TapKeys,      \* keys of drivers that "can't send push event"
  Double,       \* a double-click code for every mouse button
  NoRepeat,     \* keys with MP_NO_REPEAT_KEY
  Bound,        \* the combinations the bindings know, sequences of keys
  OwnDoubles    \* doubleclick_time # 0

NoKey == "0"
NoCmd == <<>>
Keys  == EventKeys \union TapKeys \union {Double[b] : b \in DOMAIN Double}

ASSUME KeyAssumption ==
  /\ FifoSizes \subseteq Nat \ {0, 1}
  /\ MaxKeyDown \in Nat \ {0}
  /\ NoKey \notin Keys
  /\ NoCmd \notin Bound
  /\ OwnDoubles \in BOOLEAN

Code == [key : Keys \union {NoKey}, down : BOOLEAN, all : BOOLEAN]

DownCode(k) == [key |-> k, down |-> TRUE,  all |-> FALSE]
UpCode(k)   == [key |-> k, down |-> FALSE, all |-> FALSE]

VARIABLES
  key_fifo_size,
  fifo,       \* key_fifo_data[key_fifo_read .. key_fifo_write - 1]
  previous,   \* previous_down_key
  last_key,   \* last_key[2] of mplayer_put_key
  key_down,   \* key_down[0 .. num_key_down - 1]
  last_down,  \* last_key_down # 0
  ar_state, ar_cmd,
  cmd,        \* what the latest read_events returned
  held        \* the keys the user holds down

fifoVars == <<fifo, previous, last_key>>
downVars == <<key_down, last_down, ar_state, ar_cmd, cmd>>
vars     == <<key_fifo_size, fifoVars, downVars, held>>

Init ==
  /\ key_fifo_size \in FifoSizes
  /\ fifo = <<>> /\ previous = UpCode(NoKey) /\ last_key = <<NoKey, NoKey>>
  /\ key_down = <<>> /\ last_down = FALSE
  /\ ar_state = -1 /\ ar_cmd = NoCmd /\ cmd = NoCmd
  /\ held = {}

----------------------------------------------------------------------------
\* mp_fifo.c.  q holds the fifo and previous_down_key.

Free(q) == key_fifo_size - Len(q.fifo)

\* The fifo is full; or the space left is reserved for releases; or its last
\* slot would get a second reset in a row.
NoRoomTest(q, code) == Free(q) = 1 /\ q.previous.all
Dropped(q, code) ==
  \/ Free(q) = 0
  \/ code.down /\ Free(q) <= key_fifo_size \div 2
  \/ Free(q) = 1 /\ q.previous.all

\* The last slot takes a reset of all keys, which may carry the release of
\* the key that was pushed last.
StoredPlain(q, code) == code
StoredNoKey(q, code) ==
  IF Free(q) # 1 THEN code ELSE [key |-> NoKey, down |-> FALSE, all |-> TRUE]
Stored(q, code) ==
  IF Free(q) # 1 THEN code
  ELSE [key  |-> IF code = q.previous THEN code.key ELSE NoKey,
        down |-> FALSE, all |-> TRUE]

put_key_internal(q, code) ==
  IF Dropped(q, code) THEN q
  ELSE LET c == Stored(q, code)
       IN [fifo     |-> Append(q.fifo, c),
           previous |-> [UpCode(IF c.down THEN c.key ELSE NoKey) EXCEPT !.all = c.all]]

\* Which clicks are quick enough for a double click is left open.
put_key(code) ==
  /\ IF OwnDoubles /\ \E b \in DOMAIN Double : code.key = Double[b]
     THEN UNCHANGED fifoVars
     ELSE LET q == put_key_internal([fifo |-> fifo, previous |-> previous], code)
              l == IF code.down THEN <<code.key, last_key[1]>> ELSE last_key
          IN \E fast \in BOOLEAN :
               LET r == IF /\ fast /\ OwnDoubles /\ l = <<code.key, code.key>>
                           /\ code.key \in DOMAIN Double
                        THEN put_key_internal(q, UpCode(Double[code.key])) ELSE q
               IN fifo' = r.fifo /\ previous' = r.previous /\ last_key' = l
  /\ UNCHANGED <<key_fifo_size, downVars>>

\* A driver that reports a push (again, when the system repeats it) ...
Press(k) == held' = held \union {k} /\ put_key(DownCode(k))
\* ... and the release,
Release(k) == k \in held /\ held' = held \ {k} /\ put_key(UpCode(k))
\* and one that reports both as one code.
Tap(k) == put_key(UpCode(k)) /\ UNCHANGED held

----------------------------------------------------------------------------
\* input/input.c.  d holds what interpret_key and check_autorepeat change.

Pushed(d)    == {d.key_down[i] : i \in 1 .. Len(d.key_down)}
get_cmd_from_keys(keys) == IF keys \in Bound THEN keys ELSE NoCmd

ReleaseAll(d) == [d EXCEPT !.key_down = <<>>, !.last_down = FALSE]

\* Too many keys down, as tested for a push.
TooManyPushed(d) == Len(d.key_down) > MaxKeyDown

KeyPushedKeepsRepeat(d, k) ==
  IF TooManyPushed(d) \/ k \in Pushed(d) THEN d
  ELSE [d EXCEPT !.key_down = Append(@, k), !.last_down = TRUE,
                 !.ar_state = IF @ = -1 THEN 0 ELSE @]
KeyPushed(d, k) ==
  IF TooManyPushed(d) \/ k \in Pushed(d) THEN d
  ELSE [d EXCEPT !.key_down = Append(@, k), !.last_down = TRUE, !.ar_state = 0]

\* The memmove that closes the gap at j.
Without(keys, j) ==
  [n \in 1 .. Len(keys) - 1 |-> IF n < j THEN keys[n] ELSE keys[n + 1]]

\* The command of the combination is given on the first release after a push.
KeyReleased(d, k) ==
  IF k \notin Pushed(d) /\ Len(d.key_down) >= MaxKeyDown THEN d
  ELSE LET known == k \in Pushed(d)
           keys  == IF known THEN d.key_down ELSE Append(d.key_down, k)
       IN [key_down  |-> Without(keys, CHOOSE j \in 1 .. Len(keys) : keys[j] = k),
           last_down |-> FALSE,
           ar_state  |-> -1,
           ar_cmd    |-> NoCmd,
           cmd       |-> IF known /\ ~d.last_down THEN NoCmd ELSE get_cmd_from_keys(keys)]

interpret_key(d, code) ==
  LET e == IF code.all THEN ReleaseAll(d) ELSE d
  IN IF code.key = NoKey THEN e
     ELSE IF code.down THEN KeyPushed(e, code.key) ELSE KeyReleased(e, code.key)

check_autorepeat(d, elapsed) ==
  IF ~elapsed \/ d.ar_state < 0 \/ d.key_down = <<>> \/ d.key_down[Len(d.key_down)] \in NoRepeat
  THEN d
  ELSE LET c == IF d.ar_state = 0 THEN get_cmd_from_keys(d.key_down) ELSE d.ar_cmd
       IN [d EXCEPT !.ar_state = IF c = NoCmd THEN -1 ELSE 1, !.ar_cmd = c, !.cmd = c]

\* The key part of read_events: mplayer_get_key, then the repeat.
read_keys ==
  \E elapsed \in BOOLEAN :
    LET d == [key_down |-> key_down, last_down |-> last_down,
              ar_state |-> ar_state, ar_cmd |-> ar_cmd, cmd |-> NoCmd]
        e == IF fifo = <<>> THEN d ELSE interpret_key(d, Head(fifo))
        f == IF e.cmd # NoCmd THEN e ELSE check_autorepeat(e, elapsed)
    IN /\ key_down' = f.key_down /\ last_down' = f.last_down
       /\ ar_state' = f.ar_state /\ ar_cmd' = f.ar_cmd /\ cmd' = f.cmd
       /\ fifo' = IF fifo = <<>> THEN <<>> ELSE Tail(fifo)
       /\ UNCHANGED <<key_fifo_size, previous, last_key, held>>

Next ==
  \/ \E k \in EventKeys : Press(k) \/ Release(k)
  \/ \E k \in TapKeys : Tap(k)
  \/ read_keys

Spec == Init /\ [][Next]_vars

----------------------------------------------------------------------------
\* The fifo never outgrows its array; everything has its type.
TypeOK ==
  /\ key_fifo_size \in FifoSizes
  /\ fifo \in Seq(Code) /\ Len(fifo) <= key_fifo_size
  /\ previous \in Code
  /\ last_key \in (Keys \union {NoKey}) \X (Keys \union {NoKey})
  /\ key_down \in Seq(Keys) /\ last_down \in BOOLEAN
  /\ ar_state \in {-1, 0, 1} /\ ar_cmd \in Bound \union {NoCmd}
  /\ cmd \in Bound \union {NoCmd}
  /\ held \subseteq EventKeys

Frees(code, k) == code.all \/ (~code.down /\ code.key = k)

\* A key that counts as down, in key_down or as a push still in the fifo, is
\* held by the user or has its release (or a reset of all keys) behind it in
\* the fifo: whatever the fifo drops, no key gets stuck.
NoStuckKeys ==
  /\ \A n \in 1 .. Len(key_down) :
       key_down[n] \in held \/ \E i \in 1 .. Len(fifo) : Frees(fifo[i], key_down[n])
  /\ \A n \in 1 .. Len(fifo) :
       fifo[n].down =>
         \/ fifo[n].key \in held
         \/ \E i \in n + 1 .. Len(fifo) : Frees(fifo[i], fifo[n].key)

\* mp_fifo.c, "ensure we do not only create MP_KEY_RELEASE_ALL events": two
\* resets never follow each other in the fifo.
ResetsAreApart ==
  \A n \in 1 .. Len(fifo) - 1 : ~(fifo[n].all /\ fifo[n + 1].all)

\* The command being repeated is the one bound to the keys that are down now.
RepeatsHeldKeys ==
  ar_state = 1 /\ key_down # <<>> => ar_cmd = get_cmd_from_keys(key_down)

\* mp_fifo.c, the "HACK": even a fifo of size 2 lets a push and a release that
\* come at the same time through, as the command of that key.
ClickGivesCommand ==
  fifo = <<>> /\ key_down = <<>> =>
    \A k \in EventKeys :
      LET q == put_key_internal(
                 put_key_internal([fifo |-> fifo, previous |-> previous], DownCode(k)),
                 UpCode(k))
          d == [key_down |-> <<>>, last_down |-> last_down,
                ar_state |-> ar_state, ar_cmd |-> ar_cmd, cmd |-> NoCmd]
      IN /\ Len(q.fifo) = 2
         /\ interpret_key(interpret_key(d, q.fifo[1]), q.fifo[2]).cmd = get_cmd_from_keys(<<k>>)

\* key_down has room for MP_MAX_KEY_DOWN keys. Not kept: with one key more than
\* that, the test for a push lets it in.
KeysFit == Len(key_down) <= MaxKeyDown
=============================================================================
