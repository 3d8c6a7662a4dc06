SPECIFICATION FairSpec
CONSTANTS
  Listeners = {m1}
  Recorders = {r1}
  Admin = admin
  User = user
  Mute = mute
  Agent = agent_
  MaxLog = 2
  EventsPerPoll = 2
  Muted = {1}
  MaxEvents = 3
PROPERTIES CallsEnd ListenersEnd SettingsConverge AlertsShown
