----------------------------- MODULE CSVFiles -----------------------------
(***************************************************************************)
(* The producer's CSV files, which cmd/parse-rir and cmd/fetch-geofeeds    *)
(* write and both dataset builders read: allocations.csv, routes.csv,      *)
(* autnums.csv and geolocations.csv.  A row is given by the columns that   *)
(* somebody computes with; the rest are copied.                            *)
(***************************************************************************)
EXTENDS IPRanges

NoOrigin == -1      \* an empty origin column
NoNumber == 0       \* an ASN that is not "AS" and a number

\* A prefix as somebody wrote it, host bits included.
WrittenPrefixes == [address : Addresses, length : 0 .. Bits]

\* A file is a finite list of rows.
IsFile(rows) == rows \in Seq({rows[i] : i \in DOMAIN rows})

\* Of a sequence the values at the accepted places, in order, up to each place.
Kept(values, accepted) ==
    LET upto[n \in 0 .. Len(values)] ==
            IF n = 0 THEN <<>>
            ELSE IF n \in accepted THEN Append(upto[n - 1], values[n]) ELSE upto[n - 1]
    IN  upto

\* The accepted rows of a file, in order.
Selected(rows, Accepts(_)) ==
    Kept(rows, {i \in DOMAIN rows : Accepts(rows[i])})[Len(rows)]

\* The files and the options of a build, as far as the bbolt builder reads
\* them: the range columns of a route are not among that.
IsInput(csv) ==
    /\ csv.allocations \in Seq(Ranges) /\ csv.geofeeds \in Seq(Ranges)
    /\ IsFile(csv.routes) /\ IsFile(csv.autnums)
    /\ \A i \in DOMAIN csv.routes :
          /\ csv.routes[i].prefix \in WrittenPrefixes
          /\ csv.routes[i].origin \in Nat \cup {NoOrigin}
    /\ \A i \in DOMAIN csv.autnums : csv.autnums[i].asn \in Nat
    /\ csv.compact \in BOOLEAN
=========================================================================
