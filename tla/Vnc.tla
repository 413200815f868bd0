-------------------------------- MODULE Vnc ---------------------------------
(***************************************************************************)
(* grab of harness/shots/vnc.py: in the gpu display mode a screenshot is   *)
(* one full frame asked of QEMU's VNC server, over a connection of its     *)
(* own.  Every read ends with data, with an error, or at the deadline of   *)
(* the whole grab.                                                         *)
(*                                                                         *)
(* The server is outside the repository: it may say anything, send bells   *)
(* and clipboard texts as it likes, and cut the frame into rectangles as   *)
(* it likes, but sends no part of the frame it was asked for twice.        *)
(***************************************************************************)
EXTENDS Integers, Sequences

CONSTANTS
  Sizes,     \* the sizes of framebuffers, as <<width, height>>
  MaxPixels, \* _MAX_PIXELS
  MaxTime    \* bound: units of time until the deadline

\* A size is two unsigned numbers of the server's.
ASSUME VncAssumption ==
  MaxPixels \in Nat /\ MaxTime \in Nat \ {0} /\ Sizes \subseteq Nat \X Nat

VARIABLES
  grab,    \* "idle", where the exchange is, "ok" or "raised"
  size,    \* the framebuffer's width and height
  pixels,  \* the frame, by index: what was written there last
  covered, \* covered
  rects,   \* rectangles of the current update still to come
  sent,    \* the positions the server has sent
  time     \* the time left

vncVars == <<grab, size, pixels, covered, rects, sent, time>>

Width == size[1]
Height == size[2]

VncInit ==
  /\ grab = "idle" /\ size = <<0, 0>> /\ pixels = <<>> /\ covered = 0 /\ rects = 0
  /\ sent = {}
  /\ time = MaxTime

Grabbing == grab \notin {"idle", "ok", "raised"}

\* The client waits for data.
Reading == Grabbing /\ (grab = "rectangle" => rects > 0)

\* The time passes, also while the server talks.
Tick ==
  /\ Grabbing /\ time > 0
  /\ time' = time - 1
  /\ UNCHANGED <<grab, size, pixels, covered, rects, sent>>

GrabRaises == grab' = "raised" /\ UNCHANGED <<size, pixels, covered, rects, sent, time>>

\* _Reader.read: the deadline is looked at before every wait for data.
DeadlinePassed == time = 0

DeadlineRaises == Reading /\ DeadlinePassed /\ GrabRaises

\* No data within the timeout of one read, a closed socket, or a reply the client does
\* not accept: a version, no security type None, a refusal, a message or an encoding.
ServerFails == Reading /\ ~DeadlinePassed /\ GrabRaises

\* Something is read.
Reads(place) == grab = place /\ Reading /\ ~DeadlinePassed

Connect ==
  /\ grab = "idle"
  /\ grab' \in {"version", "raised"}
  /\ time' = MaxTime
  /\ UNCHANGED <<size, pixels, covered, rects, sent>>

\* _handshake: the version, the security type and its result.
Exchange == [version |-> "security", security |-> "result", result |-> "init"]

Shake ==
  /\ grab \in DOMAIN Exchange /\ Reads(grab)
  /\ grab' = Exchange[grab]
  /\ UNCHANGED <<size, pixels, covered, rects, sent, time>>

\* A byte of the frame before it is written.
Zero == <<"zero", <<0, 0>>>>
Black == <<Zero, Zero, Zero>>

\* The server's size is checked before the frame is made; one full update is asked for.
ServerInit(dimensions) ==
  /\ Reads("init")
  /\ LET area == dimensions[1] * dimensions[2] IN
     IF area \in 1 .. MaxPixels
     THEN /\ size' = dimensions
          /\ pixels' = [i \in 0 .. area - 1 |-> Black]
          /\ grab' = "message"
          /\ UNCHANGED <<covered, rects, sent, time>>
     ELSE GrabRaises

\* A bell or a clipboard text.
Chatter == Reads("message") /\ UNCHANGED vncVars

\* The head of an update: how many rectangles it has.
Update(count) ==
  /\ Reads("message")
  /\ rects' = count
  /\ grab' = "rectangle"
  /\ UNCHANGED <<size, pixels, covered, sent, time>>

\* The positions of a rectangle <<x, y, width, height>>.
Area(r) == (r[1] .. r[1] + r[3] - 1) \X (r[2] .. r[2] + r[4] - 1)

Inside(r) == r[1] + r[3] <= Width /\ r[2] + r[4] <= Height

\* A pixel as it arrives, in bytes, and as three bytes of the frame.
Bytes(position) == <<<<"blue", position>>, <<"green", position>>, <<"red", position>>, "unused">>
Rgb(bytes) == <<bytes[3], bytes[2], bytes[1]>>

\* The data of a rectangle, row by row.
Data(r) == [i \in 0 .. r[3] * r[4] - 1 |-> Bytes(<<r[1] + (i % r[3]), r[2] + (i \div r[3])>>)]

\* (Slip: a row begins where the rectangle's own rows would.)
OwnRow(r, i) == (r[2] + (i \div r[3])) * r[3] + r[1] + (i % r[3])

\* Where in the frame the i-th pixel of a rectangle goes.
Place(r, i) == (r[2] + (i \div r[3])) * Width + r[1] + (i % r[3])

Paste(r) ==
  [p \in DOMAIN pixels |->
     IF \E i \in DOMAIN Data(r) : Place(r, i) = p
     THEN Rgb(Data(r)[CHOOSE i \in DOMAIN Data(r) : Place(r, i) = p]) ELSE pixels[p]]

Rectangle(r) ==
  /\ Reads("rectangle")
  /\ Area(r) \cap sent = {}
  /\ IF Inside(r)
     THEN /\ pixels' = Paste(r)
          /\ covered' = covered + r[3] * r[4]
          /\ sent' = sent \cup Area(r)
          /\ rects' = rects - 1
          /\ UNCHANGED <<grab, size, time>>
     ELSE GrabRaises

WholeFrame == covered >= Width * Height

\* After an update: the frame is complete, or the next message is read.
UpdateEnds ==
  /\ grab = "rectangle" /\ rects = 0
  /\ grab' = IF WholeFrame THEN "ok" ELSE "message"
  /\ UNCHANGED <<size, pixels, covered, rects, sent, time>>

\* The rectangles a server may name, at the edges of the frame and beyond.
Rectangles == {<<x, y, w, h>> : x \in 0 .. Width, y \in 0 .. Height,
                                w \in 0 .. Width, h \in 0 .. Height}

VncNext ==
  \/ Tick
  \/ DeadlineRaises
  \/ ServerFails
  \/ Connect
  \/ Shake
  \/ \E dimensions \in Sizes : ServerInit(dimensions)
  \/ Chatter
  \/ \E count \in 0 .. 2 : Update(count)
  \/ \E r \in Rectangles : Rectangle(r)
  \/ UpdateEnds

VncSpec == VncInit /\ [][VncNext]_vncVars

-----------------------------------------------------------------------------
(* Property.                                                               *)

\* A frame that is returned shows the screen: every pixel was received, is in its
\* place and has its colours, however the server cut the frame into rectangles and
\* updates.
FrameIsTheScreen ==
  grab = "ok" =>
    \A x \in 0 .. Width - 1, y \in 0 .. Height - 1 :
      pixels[y * Width + x] = <<<<"red", <<x, y>>>>, <<"green", <<x, y>>>>, <<"blue", <<x, y>>>>>>
=============================================================================
