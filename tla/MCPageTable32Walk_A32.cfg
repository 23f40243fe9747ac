SPECIFICATION Spec
CONSTANTS
  L1_COUNT = 4
  L2_COUNT = 2
  PAGE_SIZE_4K = 4096
  SMALL_FLUSH_THRESHOLD = 1
  Frame <- MC_Frame
  NoFrame <- MC_NoFrame
  VAddr <- MC_VAddr
  Target <- MC_Target
  StaleTable <- MC_StaleTable
  AllocChoice <- MC_AllocChoice
  align_down <- MC_align_down
  Lender <- MC_Lender
  LenderTable <- MC_LenderTable
  CopyRange <- MC_CopyRange
  FRAME_COUNT = 3
  Beyond <- MC_Beyond
  PTE <- MC_PTE
  Zero <- MC_Zero
  PAddr <- MC_PAddr
  PA0 <- MC_PA0
  Flags <- MC_Flags
  pte_new_page <- A32_new_page
  pte_new_table <- A32_new_table
  pte_paddr <- A32_paddr
  pte_flags <- A32_flags
  pte_set_paddr <- A32_set_paddr
  pte_set_flags <- A32_set_flags
  pte_is_unused <- A32_is_unused
  pte_is_present <- A32_is_present
  pte_is_huge <- A32_is_huge
INVARIANT WalkFindsPages
