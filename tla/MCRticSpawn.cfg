SPECIFICATION Spec
CONSTANTS
  work = work
  reply = reply
  usb = usb
  m1 = m1
  m2 = m2
  Idle = Idle
  None = None
  SwTasks <- MCSwTasks
  HwTasks <- MCHwTasks
  Resources = {}
  Payloads = {m1, m2}
  Prio <- MCPrio
  Cap <- MCCap
  Uses <- MCUses
  Spawns <- MCSpawns
  InitSpawns = {work}
  Ceiling <- MCCeiling
  RqCap <- MCRqCap
  MaxOps = 1
INVARIANTS
  TypeOK
  SlotConservation
  NoLostWakeup
PROPERTIES
  ImplementsTaskQueues
