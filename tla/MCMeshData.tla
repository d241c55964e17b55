----------------------------- MODULE MCMeshData -----------------------------
\* Small instances for MeshData: two documents, the second with a version past
\* the clamp, a device listed twice and a row that is not mesh-local on the other
\* network; two peers beside the border router's own record.
EXTENDS MeshData

Address(n, i) == [net |-> n, iid |-> i]

BookRow(dev, eid, spatial) == [dev |-> dev, eid |-> eid, spatial |-> spatial]

BooksValue ==
  { [ver |-> 1, dig |-> "d1", rows |-> <<BookRow("e1", Address("m1", "eid"), "s1")>>],
    [ver |-> 5, dig |-> "d2", rows |-> <<BookRow("e1", Address("m2", "eid"), NoSpatial),
                                         BookRow("e1", Address("m1", "rloc"), "s1")>>] }

\* A digest may be cut short; the second peer says nothing of its chunks, or names them
\* differently in the records of its two services.
PrefixesValue == [d \in Digests |-> Texts]

Keys(ver, dig, chunks) == [ver |-> ver, dig |-> dig, chunks |-> chunks]

Torrent(keys) == [svc |-> {"tmfs"}, keys |-> [s \in {"tmfs"} |-> keys], addr |-> TRUE]

HostsValue ==
  [p \in Peers |->
     CASE p = "p1" -> {Torrent(Keys(1, "d1", "all"))}
       [] p = "p2" -> {Torrent(Keys(1, "d", NoKey)),
                       [svc |-> {"tmfs", "mesh"},
                        keys |-> [s \in Services |-> IF s = "tmfs" THEN Keys(1, "d1", "some")
                                                     ELSE Keys(NoKey, NoKey, "all")],
                        addr |-> TRUE]}
       [] p = Self -> {Torrent(Keys(1, "d1", "all"))}]
=============================================================================
