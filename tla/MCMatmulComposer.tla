-------------------------- MODULE MCMatmulComposer --------------------------
(* Model-checking instances of MatmulComposer.                            *)
EXTENDS MatmulComposer

MCFmtAttrs == {"absent", "DefaultFormat", "FRACTAL_NZ"}
MCPriFmts == {"DefaultFormat", "FRACTAL_NZ"}

(* Output formats: dense, tiled, and one the converter does not support. *)
MCOutFmts == {"DefaultFormat", "FRACTAL_NZ", "FRACTAL_ZZ"}

MCDTypes == {"float16", "float32"}
MCNoBias == {FALSE}
MCBias == {FALSE, TRUE}
=============================================================================
