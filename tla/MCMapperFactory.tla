--------------------------- MODULE MCMapperFactory ---------------------------
(* Two databases; f is the factory that checkAndRollbackTransaction finds.  *)
EXTENDS MapperFactory

CONSTANTS f, g
=============================================================================
