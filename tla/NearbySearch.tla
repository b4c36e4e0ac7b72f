------------------------------ MODULE NearbySearch ------------------------------
(***************************************************************************)
(* The geometry of handleFindNearby: a box cut out of the table by the SQL *)
(* statement, then the great-circle distance of each row.  Positions and   *)
(* radii are whole steps of a grid of angles; sines and cosines are read   *)
(* off one table.                                                          *)
(***************************************************************************)
EXTENDS Integers, FiniteSets, Functions, Sequences

CONSTANTS
    MaxLat, MaxLng,   \* 90 and 180 degrees
    Scale,            \* the number that stands for 1
    Hav,              \* the square of the sine of half an angle
    DefaultRadius     \* kDefaultRadiusKm

ASSUME SearchAssumption ==
    /\ MaxLat \in Nat \ {0} /\ MaxLng = 2 * MaxLat
    /\ DefaultRadius \in Nat \ {0}
    /\ Scale \in Nat /\ Scale >= 2 * MaxLng
    /\ Hav \in [0 .. 2 * MaxLng -> 0 .. Scale]
    /\ Hav[0] = 0 /\ 2 * Hav[MaxLat] = Scale
    /\ \A k \in 0 .. MaxLng : Hav[2 * MaxLng - k] = Hav[k]
    /\ \A j, k \in 0 .. MaxLng : j < k => Hav[j] < Hav[k]

Valid(p) == p.lat \in -MaxLat .. MaxLat /\ p.lng \in -MaxLng .. MaxLng

Gap(a, b) == IF a < b THEN b - a ELSE a - b

\* cos x = 1 - 2 sin^2 (x / 2), of a latitude.
Cos(lat) == Scale - 2 * Hav[Gap(lat, 0)]

\* What haversine takes the arc of (times Scale cubed): the code compares and
\* sorts distances only, and they grow with it.
Haversine(p, q) ==
    Scale * Scale * Hav[Gap(p.lat, q.lat)]
      + Cos(p.lat) * Cos(q.lat) * Hav[Gap(p.lng, q.lng)]

EffectiveRadius(radius) == IF radius <= 0 THEN DefaultRadius ELSE radius

\* The distance is at most the radius; nothing is further than half way round.
Within(p, centre, radius) ==
    radius >= MaxLng \/ Haversine(p, centre) <= Scale * Scale * Hav[radius]

\* A degree is taken for 111 km in the box; on the sphere of kEarthRadiusKm it is
\* 111.19 km, so that the box is a little larger than the radius.
BoxDegree == 11100
EarthDegree == 11119

\* max(|cosLat|, 1e-6): the bound is met at the poles only.
Narrowing(lat) == IF Cos(lat) = 0 THEN 1 ELSE Cos(lat)

\* Variant: a degree of longitude is as long everywhere.
UniformLongitude(p, centre, radius) ==
    Gap(p.lng, centre.lng) * BoxDegree <= radius * EarthDegree

\* BETWEEN compares numbers: no longitude is beyond 180 degrees.
InLatitude(p, centre, radius) ==
    Gap(p.lat, centre.lat) * BoxDegree <= radius * EarthDegree

InLongitude(p, centre, radius) ==
    Gap(p.lng, centre.lng) * BoxDegree * Narrowing(centre.lat) <= radius * EarthDegree * Scale

InBox(p, centre, radius) == InLatitude(p, centre, radius) /\ InLongitude(p, centre, radius)

\* The rows by their distance; the order of rows as near is any.
NearestFirst(found, centre) ==
    CHOOSE list \in [1 .. Cardinality(found) -> found] :
        /\ Range(list) = found
        /\ \A i, j \in DOMAIN list : i < j =>
              Haversine(list[i].at, centre) <= Haversine(list[j].at, centre)

\* The rows found.
Nearby(rows, centre, radius) ==
    LET r == EffectiveRadius(radius)
    IN  NearestFirst({x \in rows : InBox(x.at, centre, r) /\ Within(x.at, centre, r)}, centre)

\* The search a reader of the code expects.  Of the places within the radius, none
\* is missed for its latitude.  A missed one is too far in longitude, counted as
\* a number: by more than the radius and by more than its arc at the centre's
\* latitude.  With the centre on the equator and a radius short of the poles it
\* lies across the antimeridian.
ExpectedSearch(rows, centre, radius, found) ==
    LET r == EffectiveRadius(radius)
        near == {x \in rows : Within(x.at, centre, r)}
        missed == near \ Range(found)
    IN  /\ Range(found) \subseteq near
        /\ \A x \in missed :
              /\ Gap(x.at.lng, centre.lng) > r
              /\ Gap(x.at.lng, centre.lng) * Cos(centre.lat) * BoxDegree > r * Scale * EarthDegree
              /\ centre.lat = 0 /\ r < MaxLat => Gap(x.at.lng, centre.lng) > MaxLng
        /\ Len(found) = Cardinality(Range(found))
        /\ \A i, j \in DOMAIN found : i < j =>
              Haversine(found[i].at, centre) <= Haversine(found[j].at, centre)
=============================================================================
