----------------------- MODULE MCKeyArrayBlockingQueue -----------------------
(* Queues that start empty, or with the copy of a collection.              *)
EXTENDS KeyArrayBlockingQueue, TLC

CONSTANTS x, y

MCContents == {<<>>, <<x>>, <<y, x>>}

MCEmpty == {<<>>}

MCSymmetry == Permutations(Elements)
=============================================================================
