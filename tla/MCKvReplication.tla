-------------------------- MODULE MCKvReplication ---------------------------
EXTENDS KvReplication, TLC

CONSTANTS n1, n2, k1, k2, v1, v2, s1, s2, s3

MCReplicas == {n1, n2}
MCKeys     == {k1, k2}
MCVals     == {v1, v2}
MCSessions == {s1, s2, s3}

\* One session per write shape that can interfere with the others on k1: a
\* put, a batch naming k1 twice, a compare-and-swap that fails before the
\* put and succeeds after it, and a delete; a GC that forgets two of them.
MCCommands ==
    { Put(s1, k1, v1),
      MultiPut(s2, << <<k1, v1>>, <<k2, v1>>, <<k1, v2>> >>),
      Cas(s3, k1, ValueEquals(v1), CasPut(v2)),
      Delete(s2, k1),
      Cas(s3, k1, NotExists, CasDelete),
      Cas(s3, k2, IndexEquals(1), CasDelete),
      SessionGc({s1, s3}),
      Noop }

Symmetry == Permutations(MCReplicas)
=============================================================================
