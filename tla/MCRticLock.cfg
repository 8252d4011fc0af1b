SPECIFICATION FairSpec
CONSTANTS
  a = a
  b = b
  g = g
  h = h
  x = x
  y = y
  m = m
  Idle = Idle
  None = None
  SwTasks <- MCSwTasks
  HwTasks <- MCHwTasks
  Resources = {x, y}
  Payloads = {m}
  Prio <- MCPrio
  Cap <- MCCap
  Uses <- MCUses
  Spawns <- MCSpawns
  InitSpawns = {a}
  Ceiling <- MCCeiling
  RqCap <- MCRqCap
  MaxOps = 2
INVARIANTS
  MutualExclusion
  MaskRestored
  SingleBlocker
PROPERTY
  EveryTaskStarts
