----------------------------- MODULE MCLibrary -----------------------------
(* An instance of Library for TLC. *)
EXTENDS Library, Integers

CONSTANTS c1, c2, u1, u2, t1, t2, k1, k2

\* The sum of the password is 0 modulo ByteValues, hence two random bytes and the first
\* of them the key (create_encrypted_conn).
MCCode == <<1, 2>>
MCWrites == {<<>>, <<2, 0>>}

\* Both hosts and both paths, with and without https.
Visit(h, p, https) == [host |-> h, path |-> p, https |-> https]
MCVisits == {Visit("sub", "/a", TRUE), Visit("sub", "/", FALSE), Visit("top", "/", TRUE)}

\* A host's own cookie and its deletion, another value for a while and https only, which
\* "top" may not set for "sub", and one below a path for the whole domain.
Offer(d, p, v, secure, expires) ==
  [domain |-> d, path |-> p, value |-> v, secure |-> secure, expires |-> expires]
MCOffers == {Offer(None, "/", 1, FALSE, MaxTime + 1), Offer(None, "/", 1, FALSE, 0),
             Offer("sub", "/", 2, TRUE, 1), Offer("top", "/a", 1, FALSE, MaxTime + 1)}

MCParents == {<<"sub", "top">>}

\* 1970-01-01 was a Thursday.  About the turn of three centuries, two of them without a
\* leap day, and where the eras of the conversion begin.
Epoch(y, m, z, w) == [year |-> y, month |-> m, day |-> z, weekday |-> w]
MCEpochs == {Epoch(1970, 1, 0, 4), Epoch(1900, 1, -25567, 1), Epoch(2000, 1, 10957, 6),
             Epoch(2100, 1, 47482, 5), Epoch(0, 3, -719468, 3)}
MCShifts == {-13, -1, 1, 12}

MCTokenKinds == {"name", "==", "<", "-", "=", "++", "[", "]", "?", ":"}
=============================================================================
