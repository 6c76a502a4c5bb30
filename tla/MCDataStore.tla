---------------------------- MODULE MCDataStore ----------------------------
(* Instances of DataStore for TLC.                                         *)
EXTENDS DataStore

CONSTANTS r1, r2, p1, p2

MCRequests == {r1, r2}
MCSymmetry == Permutations(MCRequests)

MCAsks == {<<>>, <<p2>>, <<p1, p2>>, <<p1, p1>>, <<p2, p1, p2>>}

\* Whole, cut behind the first of two users, inside the first one, and whole with
\* a header in place of the first user; the last one with a profile that is too
\* short.
MCUserLists == {<<MeasuredUser, MeasuredUser>>, <<BareUser, MeasuredUser>>}
MCMeasured  == GetUsersBlob(<<MeasuredUser, MeasuredUser>>)
MCBlobs     == {CutOff(MCMeasured, 6, FALSE), CutOff(MCMeasured, 2, FALSE),
                CutOff(MCMeasured, 1, TRUE)}
MCBare      == CutOff(GetUsersBlob(<<BareUser, MeasuredUser>>), 6, FALSE)
MCBuilds    == [users : MCBlobs, profile : {MeasuredProfile}]
                 \union {[users |-> MCBare, profile |-> BareUser]}

\* Every route of the dispatch, and every form of an envelope.
MCMethods == {24, 25, 48, 49, 53, 66, 70, 71, 73, 132, 200}
=============================================================================
