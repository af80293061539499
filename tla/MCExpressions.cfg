CONSTANTS
  ByteBits = 2
  FpuSize = 3
  Families <- MCFamilies
  ProgramsOf <- MCProgramsOf
SPECIFICATION Spec
INVARIANTS ComputesAsC FoldsAsC
