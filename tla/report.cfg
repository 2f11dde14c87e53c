SPECIFICATION ReportSpec
CONSTANTS
  Campaigns <- AllCampaigns
  CutCampaigns <- Cut
  Unread = 77
  Profiles <- ProfileNames
INVARIANT WellFormed
INVARIANT PrintsWhatArrived
 
