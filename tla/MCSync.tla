------------------------------- MODULE MCSync -------------------------------
(* Two games, a and b, and the volumes the runs give them: "ram", an        *)
(* internal volume they share (Sega CD's scd_U.brm), a cart they share, or  *)
(* an internal volume a has to itself (flycast's per-game VMU A1).  The     *)
(* name table gives y to b; z is in no table and the user may claim it.     *)
EXTENDS SyncVolumes

CONSTANTS a, b, ram, cart, own, x, y, z, old, new

MCItem(d, n, t) == [dev |-> d, name |-> n, data |-> t]
MCIn(n, t) == MCItem("internal", n, t)
MCDevices == {"internal", "cart"}
MCAll == {ram, cart, own}
MCDeviceOf == [v \in MCAll |-> IF v = cart THEN "cart" ELSE "internal"]
MCDevice == [v \in Volumes |-> MCDeviceOf[v]]
MCTargetsShared == [g \in {a, b} |-> {ram}]
MCTargetsCart == [g \in {a, b} |-> {ram, cart}]
MCTargetsSplit == [g \in {a, b} |-> IF g = a THEN {own, cart} ELSE {cart}]
MCNameTable == [g \in {a, b} |-> IF g = b THEN {y} ELSE {}]
MCAlone == [g \in {a, b} |-> {}]
MCCompanionB == [g \in {a, b} |-> IF g = a THEN {b} ELSE {}]
MCClaimZ == {{}, {z}}
MCNoClaim == {{}}
MCCapacity2 == [v \in Volumes |-> 2]
MCServerUnits == [g \in {a, b} |-> IF g = a THEN {{MCIn(x, old)}} ELSE {{MCIn(y, old)}}]
MCServerCart == [g \in {a, b} |-> IF g = a THEN {{MCItem("cart", x, old)}} ELSE {{MCItem("cart", y, old)}}]
MCServerBoth == [g \in {a, b} |-> IF g = a THEN {{MCIn(x, old), MCItem("cart", x, old)}} ELSE {{MCItem("cart", y, old)}}]
MCWritable == {MCIn(x, new), MCIn(y, new), MCIn(z, new)}
MCWritableBoth == {MCIn(x, new), MCItem("cart", y, new), MCItem("cart", x, new)}
MCEmpty == {[v \in Volumes |-> {}]}
MCInitShared == {[v \in Volumes |-> {}], [v \in Volumes |-> {MCItem(MCDevice[v], x, old), MCItem(MCDevice[v], z, old)}]}
\* The companion's save is on the cart, its unit in RomM on the internal volume.
MCInitApart == {[v \in Volumes |-> IF v = cart THEN {MCItem("cart", y, old)} ELSE {}]}
=============================================================================
