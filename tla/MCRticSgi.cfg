SPECIFICATION Spec
CONSTANTS
  react = react
  tick = tick
  x = x
  m = m
  Idle = Idle
  None = None
  SwTasks <- MCSwTasks
  HwTasks <- MCHwTasks
  Resources = {x}
  Payloads = {m}
  Prio <- MCPrio
  Cap <- MCCap
  Uses <- MCUses
  Spawns <- MCSpawns
  InitSpawns = {}
  Ceiling <- MCCeiling
  RqCap <- MCRqCap
  MaxOps = 2
INVARIANT
  MutualExclusion
