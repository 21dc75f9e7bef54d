------------------------------ MODULE Sfctool -------------------------------
(* sfctool (coverage/sfctool/sfctool.cc): draws the strings of a domain, one *)
(* pixel each, along a curve through a square image.                         *)
EXTENDS Integers, Sequences, FiniteSets, SequencesExt

CONSTANTS
  MaxDomain,     \* bound on the number of strings in the domain
  CommandLines,  \* [curve, maps, default]: maps lists -0, -1 and -c as given
  Covered(_)     \* is string i in the input file?

VARIABLES
  sfc_phase, command, domain_size, image_dim,
  curve,         \* the state of the SFC object
  coloropt,      \* colours not used yet
  mapopts,       \* maps not loaded yet: -0 before -1
  off_map, on_map,
  image,         \* colour of each pixel
  drawn          \* pixels in the order in which the strings reached them

sfc_vars == <<sfc_phase, command, domain_size, image_dim, curve, coloropt, mapopts, off_map, on_map,
              image, drawn>>

NoColor == <<>>
Idle_command == [curve |-> "lines", maps |-> <<>>, default |-> NoColor]

SfcOff ==
  /\ sfc_phase = "off" /\ command = Idle_command
  /\ domain_size = 0 /\ image_dim = 0 /\ curve = [pos |-> 0]
  /\ coloropt = <<>> /\ mapopts = <<>> /\ off_map = <<>> /\ on_map = <<>> /\ image = <<>> /\ drawn = <<>>

SfcInit ==
  /\ sfc_phase = "args" /\ command \in CommandLines /\ domain_size \in 0 .. MaxDomain
  /\ image_dim = 0 /\ curve = [pos |-> 0]
  /\ coloropt = <<>> /\ mapopts = <<>> /\ off_map = <<>> /\ on_map = <<>> /\ image = <<>> /\ drawn = <<>>

----------------------------------------------------------------------------
(* The curves.                                                              *)

(* SFC_Spiral: from the middle, turning after 1, 1, 2, 2, 3, 3, ... steps.   *)
SpiralReset(dim) == [x |-> dim \div 2, y |-> dim \div 2, state |-> 0, nsteps |-> 1, step |-> 0]

SpiralMove == << <<0, -1>>, <<-1, 0>>, <<0, 1>>, <<1, 0>> >>

SpiralNext(c) ==
  LET move == SpiralMove[c.state + 1]
      turn == c.step + 1 = c.nsteps
      state == IF turn THEN c.state + 1 ELSE c.state
  IN [x |-> c.x + move[1], y |-> c.y + move[2], state |-> state % 4,
      nsteps |-> IF turn /\ state \in {2, 4} THEN c.nsteps + 1 ELSE c.nsteps,
      step |-> IF turn THEN 0 ELSE c.step + 1]

(* SFC_Hilbert::rot turns the quadrant of size n.                            *)
rot(n, x, y, rx, ry) ==
  IF ry # 0 THEN <<x, y>> ELSE IF rx = 1 THEN <<n - 1 - y, n - 1 - x>> ELSE <<y, x>>

(* SFC_Hilbert::get_coords: the loop over s = 1, 2, 4, ... while s < dim.    *)
Hilbert(dim, pos) ==
  LET rounds == CHOOSE k \in 0 .. dim : 2 ^ k >= dim /\ \A j \in 0 .. k - 1 : 2 ^ j < dim
      f[k \in 0 .. rounds] ==
        IF k = 0 THEN [x |-> 0, y |-> 0, t |-> pos]
        ELSE LET s == 2 ^ (k - 1)
                 t == f[k - 1].t
                 rx == (t \div 2) % 2
                 ry == (t + rx) % 2
                 turned == rot(s, f[k - 1].x, f[k - 1].y, rx, ry)
             IN [x |-> turned[1] + s * rx, y |-> turned[2] + s * ry, t |-> t \div 4]
  IN <<f[rounds].x, f[rounds].y>>

(* The dimension the curve was constructed with: the Hilbert curve gets the  *)
(* one before rounding.                                                      *)
IsRoot(d, n) == d * d >= n /\ \A e \in 0 .. d - 1 : e * e < n
dim(n) == CHOOSE d \in 0 .. n : IsRoot(d, n)

get_coords ==
  CASE command.curve = "spiral" -> <<curve.x, curve.y>>
    [] command.curve = "hilbert" -> Hilbert(dim(domain_size), curve.pos)
    [] OTHER -> <<curve.pos % dim(domain_size), curve.pos \div dim(domain_size)>>

next == IF command.curve = "spiral" THEN SpiralNext(curve) ELSE [curve EXCEPT !.pos = @ + 1]

----------------------------------------------------------------------------
(* main.                                                                    *)

Of(kind) == SelectSeq(command.maps, LAMBDA o : o.kind = kind)

(* Hilbert curves need a power of two; mutant: the image is not enlarged.    *)
NotRounded(d) == d
RoundUp(d) == CHOOSE p \in {2 ^ k : k \in 0 .. d} : p >= d /\ \A q \in {2 ^ k : k \in 0 .. d} : q >= d => p <= q

Fail_sfc == sfc_phase' = "error" /\ UNCHANGED <<command, domain_size, image_dim, curve, coloropt, mapopts,
                                                off_map, on_map, image, drawn>>

(* The default colour is stored with blue and green exchanged.               *)
DefaultPixel == LET c == command.default IN <<c[1], c[3], c[2]>>

SetUp ==
  /\ sfc_phase = "args"
  /\ IF command.curve \notin {"lines", "spiral", "hilbert"} THEN Fail_sfc
     ELSE LET d == dim(domain_size)
              size == IF command.curve = "hilbert" THEN RoundUp(d) ELSE d
          IN /\ sfc_phase' = "maps"
             /\ image_dim' = size
             /\ curve' = IF command.curve = "spiral" THEN SpiralReset(d) ELSE [pos |-> 0]
             /\ image' = [p \in (0 .. size - 1) \X (0 .. size - 1) |-> DefaultPixel]
             /\ coloropt' = Of("color")
             /\ mapopts' = Of("off") \o Of("on")
             /\ UNCHANGED <<command, domain_size, off_map, on_map, drawn>>

Loaded(map, strings, color) ==
  [s \in DOMAIN map \cup strings |-> IF s \in strings THEN color ELSE map[s]]

LoadMap ==
  /\ sfc_phase = "maps" /\ mapopts # <<>>
  /\ IF coloropt = <<>> THEN Fail_sfc
     ELSE LET o == Head(mapopts) IN
          /\ off_map' = IF o.kind = "off" THEN Loaded(off_map, o.strings, Head(coloropt).color) ELSE off_map
          /\ on_map' = IF o.kind = "on" THEN Loaded(on_map, o.strings, Head(coloropt).color) ELSE on_map
          /\ mapopts' = Tail(mapopts) /\ coloropt' = Tail(coloropt)
          /\ UNCHANGED <<sfc_phase, command, domain_size, image_dim, curve, image, drawn>>

MapsLoaded ==
  /\ sfc_phase = "maps" /\ mapopts = <<>>
  /\ IF coloropt # <<>> THEN Fail_sfc
     ELSE sfc_phase' = "draw" /\ UNCHANGED <<command, domain_size, image_dim, curve, coloropt, mapopts,
                                             off_map, on_map, image, drawn>>

String == Len(drawn) + 1

Draw ==
  LET map == IF Covered(String) THEN on_map ELSE off_map IN
  /\ sfc_phase = "draw" /\ Len(drawn) < domain_size
  /\ drawn' = Append(drawn, get_coords)
  /\ curve' = next
  /\ image' = IF String \in DOMAIN map /\ get_coords \in DOMAIN image
              THEN [image EXCEPT ![get_coords] = map[String]] ELSE image
  /\ UNCHANGED <<sfc_phase, command, domain_size, image_dim, coloropt, mapopts, off_map, on_map>>

Write ==
  /\ sfc_phase = "draw" /\ Len(drawn) = domain_size
  /\ sfc_phase' = "written"
  /\ UNCHANGED <<command, domain_size, image_dim, curve, coloropt, mapopts, off_map, on_map, image, drawn>>

SfcNext == SetUp \/ LoadMap \/ MapsLoaded \/ Draw \/ Write

----------------------------------------------------------------------------
Distance(p, q) == (IF p[1] > q[1] THEN p[1] - q[1] ELSE q[1] - p[1])
                  + (IF p[2] > q[2] THEN p[2] - q[2] ELSE q[2] - p[2])

(* Every string gets a pixel of its own inside the image, for every size of  *)
(* the domain, although the Hilbert curve never learns the rounded size; and *)
(* spiral and Hilbert curve go from each pixel to a neighbour.               *)
CurveFits ==
  \A i \in DOMAIN drawn :
    /\ drawn[i] \in DOMAIN image
    /\ \A j \in 1 .. i - 1 : drawn[j] # drawn[i]
    /\ i > 1 /\ command.curve # "lines" => Distance(drawn[i - 1], drawn[i]) = 1

(* The maps as the usage text has them: each colour is that of the map it    *)
(* follows.                                                                  *)
OffBeforeOn == \A i, j \in DOMAIN command.maps :
                 command.maps[i].kind = "off" /\ command.maps[j].kind = "on" => i < j

Paired == \A i \in DOMAIN command.maps : (command.maps[i].kind = "color") = (i % 2 = 0)

Given(kind, s) == {i \in DOMAIN command.maps : command.maps[i].kind = kind /\ s \in command.maps[i].strings}

Wanted(s) ==
  LET given == Given(IF Covered(s) THEN "on" ELSE "off", s) IN
  IF given = {} THEN command.default
  ELSE command.maps[1 + CHOOSE i \in given : \A j \in given : j <= i].color

(* The written image has the colours the usage text promises, provided that  *)
(* all -0 are given before all -1 (the colours are dealt out in that order)  *)
(* and green and blue of the default colour are equal (they are exchanged).  *)
PaintedAsGiven ==
  sfc_phase = "written" /\ OffBeforeOn /\ Paired /\ command.default[2] = command.default[3] =>
    \A s \in 1 .. domain_size : image[drawn[s]] = Wanted(s)

(* The picture shows every string once, where the curve has it, and in its   *)
(* colour: CurveFits and PaintedAsGiven.                                     *)
PictureFaithful == CurveFits /\ PaintedAsGiven
=============================================================================
