---------------------------- MODULE EngineConfig ----------------------------
(* AppConfig of the streaming engine (config.rs): the layers fvp_init()      *)
(* merges, default.toml under the user's local.toml, and what validate()     *)
(* makes of them. A layer is a function from the keys a file sets to their   *)
(* values; a key of the wrong type is the key "mistyped". Reals are in       *)
(* hundredths, NaN is a value no comparison holds of.                        *)
(*                                                                           *)
(* Besides the keys whose limits depend on each other, one setting stands    *)
(* for the many with a range of their own: audio.bitrate_kbps, "rate".       *)
EXTENDS Integers

CONSTANT NaN  \* f32::NAN

ASSUME ConfigAssumption == NaN \notin Int

Defaults ==
  [codec |-> "h265", audio |-> TRUE, rate |-> 128,
   tcp |-> 9944, udp |-> 9945, fecMin |-> 5, fecMax |-> 40, fec |-> 20,
   fovea |-> 15, mid |-> 35, warn |-> 75, limit |-> 85, emergency |-> 90]

(* merge_toml_tables(): a layer over another, key by key. (TLC's @@, in a     *)
(* form that can be proved about.)                                           *)
Over(layer, base) ==
  [key \in DOMAIN layer \cup DOMAIN base |-> IF key \in DOMAIN layer THEN layer[key] ELSE base[key]]

(* config/default.toml, as shipped, and the built-in defaults agree on them. *)
Layered(overlay) ==
  IF "mistyped" \in DOMAIN overlay THEN Defaults ELSE Over(overlay, Defaults)

-----------------------------------------------------------------------------
(* validate(), a rule after the other.                                       *)

Outside(x, low, high) == x = NaN \/ x < low \/ x > high

InRange(c, key, low, high) ==
  IF Outside(c[key], low, high) THEN [c EXCEPT ![key] = Defaults[key]] ELSE c

MaxUdp == 65535 - 3

PortsApart(c) ==
  LET d == InRange(InRange(c, "tcp", 1024, 65535), "udp", 1024, MaxUdp)
  IN  IF d.tcp = d.udp THEN [d EXCEPT !.udp = IF d.tcp < MaxUdp THEN d.tcp + 1 ELSE d.tcp - 1] ELSE d

(* f32::clamp: it panics unless low <= high, and keeps a NaN.                *)
ClampTo(x, low, high) == IF x = NaN THEN NaN ELSE IF x < low THEN low ELSE IF x > high THEN high ELSE x

FecLimits(c) ==
  LET d == InRange(c, "fecMin", 0, 100)
  IN  InRange(d, "fecMax", d.fecMin, 100)

(* The two panics of clamp() kill vrserver.exe (panic = "abort").            *)
FecPanics(c) == Outside(c.fec, c.fecMin, c.fecMax) /\ c.fecMin > c.fecMax

FecInLimits(c) ==
  IF Outside(c.fec, c.fecMin, c.fecMax) THEN [c EXCEPT !.fec = ClampTo(@, c.fecMin, c.fecMax)] ELSE c

RadiiNested(c) ==
  LET d == InRange(c, "fovea", 1, 50)
  IN  InRange(d, "mid", d.fovea + 1, 100)

ThermalRanges(c) ==
  InRange(InRange(InRange(c, "warn", 50, 100), "limit", 50, 105), "emergency", 50, 110)

ToDefaults(c, keys) == [key \in DOMAIN c |-> IF key \in keys THEN Defaults[key] ELSE c[key]]

ThermalOrder(c) ==
  LET d == IF c.warn >= c.limit THEN ToDefaults(c, {"warn", "limit"}) ELSE c
  IN  IF d.limit >= d.emergency THEN ToDefaults(d, {"limit", "emergency"}) ELSE d

Panics(c) == FecPanics(FecLimits(PortsApart(c)))

Validated(c) ==
  ThermalOrder(ThermalRanges(RadiiNested(
    InRange(FecInLimits(FecLimits(PortsApart(c))), "rate", 32, 512))))

-----------------------------------------------------------------------------
(* What validate()'s rules are for: two ports, and the UDP port's three      *)
(* neighbours, the engine can bind; redundancy inside its limits; the radii  *)
(* nested; the thermal thresholds in their order.                            *)
PortsUsable(c) ==
  c.tcp # c.udp /\ 1024 <= c.tcp /\ c.tcp <= 65535 /\ 1024 <= c.udp /\ c.udp <= MaxUdp

FecOrdered(c) == ~Outside(c.fec, c.fecMin, c.fecMax) /\ c.fecMin <= c.fecMax

RadiiOrdered(c) == c.fovea < c.mid

ThermalOrdered(c) == c.warn < c.limit /\ c.limit < c.emergency
=============================================================================
