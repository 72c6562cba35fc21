------------------------ MODULE MCPipelineExecution ------------------------
(* Two callers of a pipeline of three steps, of which two are gated.          *)
EXTENDS PipelineExecution, TLC

PipelineSymmetry == Permutations(Callers) \cup Permutations(Roles)
=============================================================================
