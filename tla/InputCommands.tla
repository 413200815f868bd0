----------------------------- MODULE InputCommands --------------------------
(***************************************************************************)
(* The QMP commands of the input operations (send_keys, type_text,         *)
(* pointer_move and pointer_click of harness/shots/qmp.py): each operation *)
(* is a list of commands, each command a list of input events.             *)
(***************************************************************************)
EXTENDS Integers, Sequences, SequencesExt

CONSTANTS
  Keys,       \* the keys that can be pressed
  Places,     \* the places the pointer can be sent to
  Operations, \* the operations callers ask for
  MaxOps      \* bound: operations on one connection

\* parse_chord and text_to_chords raise before anything is sent, for an empty text too.
AllOperations ==
  ({"keys"} \X Seq(Keys)) \cup ({"type"} \X (Seq(Seq(Keys)) \ {<<>>}))
    \cup ({"move", "click"} \X Places)

ASSUME InputAssumption == MaxOps \in Nat /\ Operations \subseteq AllOperations

Down(key) == <<"down", key>>
Up(key) == <<"up", key>>

\* _press: all keys down in order, then up in reverse order.
Press(chord) ==
  <<[i \in DOMAIN chord |-> Down(chord[i])], [i \in DOMAIN chord |-> Up(Reverse(chord)[i])]>>

Button == "left button"

\* A text is pressed chord by chord, in two commands each.
CommandsOf(op) ==
  CASE op[1] = "keys" -> Press(op[2])
    [] op[1] = "type" ->
         [n \in 1 .. 2 * Len(op[2]) |-> Press(op[2][(n + 1) \div 2])[2 - (n % 2)]]
    [] op[1] = "move" -> <<<<op>>>>
    [] op[1] = "click" -> <<<<<<"move", op[2]>>>>, <<Down(Button)>>, <<Up(Button)>>>>

\* The keys and buttons the guest holds down: pressed, and not released by a later event.
Held(commands) ==
  {key \in Keys \cup {Button} :
     \E i \in DOMAIN commands : \E a \in DOMAIN commands[i] :
       /\ commands[i][a] = Down(key)
       /\ \A j \in DOMAIN commands : \A b \in DOMAIN commands[j] :
            i < j \/ (i = j /\ a < b) => commands[j][b] # Up(key)}
=============================================================================
