------------------------ MODULE MCRecoveryPlanning -------------------------
EXTENDS RecoveryPlanning

\* One code of every bucket, an unknown one, and each way of having none.
MCCodes ==
  {None} \cup [text : {"Z9", "ZM", "U30", "V3", "XX99", ""}, padded : BOOLEAN]

\* Both limits, one paisa over each, and zero.
MCAmounts ==
  {0, AFA_FREE_LIMIT_GENERAL, AFA_FREE_LIMIT_GENERAL + 1,
   AFA_FREE_LIMIT_PRIORITY, AFA_FREE_LIMIT_PRIORITY + 1}

MCRows ==
  [decline_code : MCCodes, amount : MCAmounts,
   mandate_category : {"general", "mutual_fund_sip"},
   attempt_count : 0..4, luck : 1..4, scheduled_at : {1}]
=============================================================================
